---- MODULE Spec2Model ----
(***************************************************************************)
(* A model of the tensor-contraction engine of ATen/native/Linear.cpp:     *)
(* sumproduct_pair, einsum, _trilinear, bilinear and tensordot, together   *)
(* with the dense-array primitives they call.                              *)
(*                                                                         *)
(* A tensor is a record [sizes, data]: sizes is the sequence of extents,   *)
(* data the entries in row-major order.  Axis numbers ("dims") and index   *)
(* values are 0-based as in the source; TLA+ sequences are 1-based, so     *)
(* axis d of a tensor t is t.sizes[d + 1].  Strings are sequences of       *)
(* character codes.                                                        *)
(***************************************************************************)
EXTENDS Integers, Sequences, FiniteSets, TLC

VARIABLES pc, call, ret, local, executed, heap, threads

\* local and executed belong to the calls that are modelled statement by
\* statement: the local variables of the call in progress and the
\* data-computing primitives it has executed so far.
stepvars == <<local, executed>>

\* heap and threads belong to the calls that run concurrently on tensors held
\* by handle: the tensors in memory and, for every thread, its call in
\* progress.
heapvars == <<heap, threads>>

\* The variables of the caller that makes one call at a time.
callervars == <<pc, call, ret, local, executed>>

vars == <<pc, call, ret, local, executed, heap, threads>>

(***************************************************************************)
(* Bounds of the model.                                                    *)
(***************************************************************************)
\* Extents of the operands' axes range over 1 .. MaxExtent.
MaxExtent == 2

\* einsum is called with 0 .. MaxOperands operands.
MaxOperands == 2

\* Operands have 0 .. MaxRank axes, label groups 0 .. MaxRank labels.
MaxRank == 2

\* Single-operand equations repeat labels in groups of up to MaxRepeat.
MaxRepeat == 3

\* Equations over the parser's special characters have up to MaxEquationLen
\* characters.
MaxEquationLen == 4

\* tensordot contracts up to MaxPairs pairs of axes.
MaxPairs == 2

\* _trilinear is called with total_dim in 1 .. MaxTrilinearDim.
MaxTrilinearDim == 2

(***************************************************************************)
(* Character codes used by the equation parser.                            *)
(***************************************************************************)
CharSpace == 32
CharComma == 44
CharDash == 45
CharGt == 62
CharA == 97
CharZ == 122

total_labels == CharZ - CharA + 1

(***************************************************************************)
(* Generic helpers on sequences.                                           *)
(***************************************************************************)
RECURSIVE ProdFrom(_, _)
ProdFrom(s, k) == IF k > Len(s) THEN 1 ELSE s[k] * ProdFrom(s, k + 1)

RECURSIVE SumFrom(_, _)
SumFrom(s, k) == IF k > Len(s) THEN 0 ELSE s[k] + SumFrom(s, k + 1)

Range(s) == {s[k] : k \in 1..Len(s)}

\* The subsequence of s at the positions (ascending) where keep holds.
RECURSIVE FilterFrom(_, _, _)
FilterFrom(s, keep(_), k) ==
  IF k > Len(s) THEN <<>>
  ELSE (IF keep(k) THEN <<s[k]>> ELSE <<>>) \o FilterFrom(s, keep, k + 1)

\* The members of the set S of numbers in ascending order.
RECURSIVE SortedSeq(_)
SortedSeq(S) ==
  IF S = {} THEN <<>>
  ELSE LET x == CHOOSE y \in S : \A z \in S : y <= z
       IN <<x>> \o SortedSeq(S \ {x})

\* 0, 1, ..., n-1 in ascending order, restricted to the members of S.
RECURSIVE AscendingIn(_, _, _)
AscendingIn(S, k, n) ==
  IF k >= n THEN <<>>
  ELSE (IF k \in S THEN <<k>> ELSE <<>>) \o AscendingIn(S, k + 1, n)

(***************************************************************************)
(* Dense array primitives (the ATen tensor operations the engine uses).    *)
(***************************************************************************)
Dim(t) == Len(t.sizes)

Size(t, d) == t.sizes[d + 1]

Numel(sizes) == ProdFrom(sizes, 1)

Stride(sizes, k) == ProdFrom(sizes, k + 1)

\* The multi-index (0-based entries) of the row-major offset n.
Unravel(n, sizes) ==
  [k \in 1..Len(sizes) |-> (n \div Stride(sizes, k)) % sizes[k]]

RECURSIVE RavelFrom(_, _, _)
RavelFrom(idx, sizes, k) ==
  IF k > Len(sizes) THEN 0
  ELSE idx[k] * Stride(sizes, k) + RavelFrom(idx, sizes, k + 1)

Ravel(idx, sizes) == RavelFrom(idx, sizes, 1)

At(t, idx) == t.data[Ravel(idx, t.sizes) + 1]

MkTensor(sizes, f(_)) ==
  [sizes |-> sizes,
   data |-> [n \in 1..Numel(sizes) |-> f(Unravel(n - 1, sizes))]]

\* at::maybe_wrap_dim: a negative dim counts from the end.
WrapDim(d, n) == IF d < 0 THEN d + n ELSE d

IsPermutation(p, n) == Len(p) = n /\ Range(p) = 0..(n - 1)

\* Tensor::permute: axis k of the result is axis perm[k] of t.
Permute(t, perm) ==
  LET n == Dim(t)
      newsizes == [k \in 1..n |-> t.sizes[perm[k] + 1]]
      src(idx) == [d \in 1..n |-> idx[CHOOSE k \in 1..n : perm[k] = d - 1]]
  IN MkTensor(newsizes, LAMBDA idx : At(t, src(idx)))

\* Tensor::reshape / view of a contiguous tensor: same row-major data.
Reshape(t, newsizes) == [sizes |-> newsizes, data |-> t.data]

CanReshape(t, newsizes) == Numel(newsizes) = Numel(t.sizes)

InsertAt(s, k, x) == SubSeq(s, 1, k - 1) \o <<x>> \o SubSeq(s, k, Len(s))

RemoveAt(s, k) == SubSeq(s, 1, k - 1) \o SubSeq(s, k + 1, Len(s))

\* Tensor::unsqueeze: a size-1 axis inserted at d (d in [-dim-1, dim]).
Unsqueeze(t, d) ==
  LET w == IF d < 0 THEN d + Dim(t) + 1 ELSE d
  IN [sizes |-> InsertAt(t.sizes, w + 1, 1), data |-> t.data]

\* Tensor::squeeze(d): axis d removed when its extent is 1.
Squeeze(t, d) ==
  LET w == WrapDim(d, Dim(t))
  IN IF t.sizes[w + 1] = 1
     THEN [sizes |-> RemoveAt(t.sizes, w + 1), data |-> t.data]
     ELSE t

\* Tensor::transpose: axes d0 and d1 exchanged.
Transpose(t, d0, d1) ==
  LET n == Dim(t)
      a == WrapDim(d0, n)
      b == WrapDim(d1, n)
  IN Permute(t, [k \in 1..n |-> IF k - 1 = a THEN b
                                ELSE IF k - 1 = b THEN a ELSE k - 1])

\* Tensor::diagonal(0, dim1, dim2): both axes removed, the diagonal
\* appended as the last axis.
Diagonal(t, dim1, dim2) ==
  LET n == Dim(t)
      rest == AscendingIn((0..(n - 1)) \ {dim1, dim2}, 0, n)
      m == IF Size(t, dim1) < Size(t, dim2) THEN Size(t, dim1)
           ELSE Size(t, dim2)
      newsizes == [k \in 1..(n - 1) |->
                     IF k = n - 1 THEN m ELSE t.sizes[rest[k] + 1]]
      src(idx) == [d \in 1..n |->
                     IF d - 1 \in {dim1, dim2} THEN idx[n - 1]
                     ELSE idx[CHOOSE k \in 1..(n - 2) : rest[k] = d - 1]]
  IN MkTensor(newsizes, LAMBDA idx : At(t, src(idx)))

\* Tensor::narrow(d, start, 1): the length-1 slice of axis d at start.
Narrow(t, d, start) ==
  MkTensor([k \in 1..Dim(t) |-> IF k = d + 1 THEN 1 ELSE t.sizes[k]],
           LAMBDA idx : At(t, [k \in 1..Dim(t) |->
                                 IF k = d + 1 THEN start ELSE idx[k]]))

\* Tensor::sum(dims, keepdim): reduce-sum over the axes in the set dims.
SumDims(t, dims, keepdim) ==
  LET n == Dim(t)
      kept == [k \in 1..n |-> IF (k - 1) \in dims THEN 1 ELSE t.sizes[k]]
      contrib(idx) ==
        [m \in 1..Numel(t.sizes) |->
           LET j == Unravel(m - 1, t.sizes)
           IN IF \A k \in 1..n : (k - 1) \in dims \/ j[k] = idx[k]
              THEN t.data[m] ELSE 0]
      full == MkTensor(kept, LAMBDA idx : SumFrom(contrib(idx), 1))
  IN IF keepdim THEN full
     ELSE [sizes |-> FilterFrom(kept, LAMBDA k : (k - 1) \notin dims, 1),
           data |-> full.data]

\* Broadcasting (at::infer_size): shapes are aligned at their last axes.
PadLeft(sizes, n) == [k \in 1..n |->
                        IF k <= n - Len(sizes) THEN 1
                        ELSE sizes[k - (n - Len(sizes))]]

BroadcastRank(a, b) == IF Len(a) > Len(b) THEN Len(a) ELSE Len(b)

Broadcastable(a, b) ==
  LET n == BroadcastRank(a, b)
      pa == PadLeft(a, n)
      pb == PadLeft(b, n)
  IN \A k \in 1..n : pa[k] = pb[k] \/ pa[k] = 1 \/ pb[k] = 1

BroadcastSizes(a, b) ==
  LET n == BroadcastRank(a, b)
      pa == PadLeft(a, n)
      pb == PadLeft(b, n)
  IN [k \in 1..n |-> IF pa[k] = 1 THEN pb[k] ELSE pa[k]]

\* The entry of t that a broadcast index selects.
BroadcastAt(t, idx) ==
  LET off == Len(idx) - Dim(t)
  IN At(t, [k \in 1..Dim(t) |-> IF t.sizes[k] = 1 THEN 0 ELSE idx[k + off]])

\* at::mul with broadcasting.
Mul(a, b) ==
  MkTensor(BroadcastSizes(a.sizes, b.sizes),
           LAMBDA idx : BroadcastAt(a, idx) * BroadcastAt(b, idx))

\* at::add with broadcasting.
Add(a, b) ==
  MkTensor(BroadcastSizes(a.sizes, b.sizes),
           LAMBDA idx : BroadcastAt(a, idx) + BroadcastAt(b, idx))

\* at::zeros.
Zeros(sizes) == MkTensor(sizes, LAMBDA idx : 0)

\* at::mm of a [n, m] and a [m, p] matrix.
Mm(a, b) ==
  MkTensor(<<a.sizes[1], b.sizes[2]>>,
           LAMBDA idx : SumFrom([c \in 1..a.sizes[2] |->
                                   At(a, <<idx[1], c - 1>>)
                                   * At(b, <<c - 1, idx[2]>>)], 1))

\* at::bmm of a [b, n, m] and a [b, m, p] batch of matrices.
Bmm(a, b) ==
  MkTensor(<<a.sizes[1], a.sizes[2], b.sizes[3]>>,
           LAMBDA idx : SumFrom([c \in 1..a.sizes[3] |->
                                   At(a, <<idx[1], idx[2], c - 1>>)
                                   * At(b, <<idx[1], c - 1, idx[3]>>)], 1))

(***************************************************************************)
(* Results of a call: err is "" on success, else the kind of the error     *)
(* raised (one kind per TORCH_CHECK message or primitive failure).         *)
(***************************************************************************)
NoTensor == [sizes |-> <<>>, data |-> <<>>]

Ok(t) == [err |-> "", val |-> t]

Fail(e) == [err |-> e, val |-> NoTensor]

(***************************************************************************)
(* Error kinds.                                                            *)
(***************************************************************************)
ErrNoOperands == "einsum() must provide at least one operand"

ErrOperandCount == "einsum() the number of operands specified in the equation does not match the number of operands provided"

ErrSubscriptRange == "einsum() subscripts must be in range [a, z]"

ErrRankMismatch == "einsum() the number of subscripts in the equation does not match the number of dimensions for operand"

ErrOutputRepeated == "einsum() output subscript appears more than once in the output string"

ErrOutputUnknown == "einsum() output subscript does not appear in the equation for any input operand"

ErrDiagonalSize == "einsum() subscript is repeated for operand but the sizes don't match"

\* Raised by Tensor::size(d) when d is not an axis of the tensor.
ErrDimOutOfRange == "Dimension out of range"

\* Raised by a broadcasting primitive on incompatible extents.
ErrBroadcast == "The size of tensor a must match the size of tensor b at non-singleton dimension"

(***************************************************************************)
(* einsum: the equation is split at "->" and at commas.                    *)
(***************************************************************************)
npos == 0 - 1

\* std::string::find("->"): the 0-based position of the first "->".
RECURSIVE find_arrow_from(_, _)
find_arrow_from(equation, p) ==
  IF p + 2 > Len(equation) THEN npos
  ELSE IF equation[p + 1] = CharDash /\ equation[p + 2] = CharGt THEN p
       ELSE find_arrow_from(equation, p + 1)

find_arrow(equation) == find_arrow_from(equation, 0)

\* equation.substr(0, arrow_pos)
einsum_lhs(equation) ==
  IF find_arrow(equation) = npos THEN equation
  ELSE SubSeq(equation, 1, find_arrow(equation))

\* equation.substr(arrow_pos + 2)
einsum_rhs(equation) ==
  SubSeq(equation, find_arrow(equation) + 3, Len(equation))

\* Faulty variant: a loop "while (getline(lhs, token, ','))", which stores no token
\* for a read that starts at the end of the stream.
RECURSIVE getline_loop_until_fail(_, _, _)
getline_loop_until_fail(lhs, pos, tokens) ==
  LET commas == {c \in pos..Len(lhs) : lhs[c] = CharComma}
  IN IF pos > Len(lhs) THEN tokens
     ELSE IF commas = {}
     THEN Append(tokens, SubSeq(lhs, pos, Len(lhs)))
     ELSE LET c == CHOOSE x \in commas : \A y \in commas : x <= y
          IN getline_loop_until_fail(lhs, c + 1,
                                     Append(tokens, SubSeq(lhs, pos, c - 1)))

\* The loop "while (lhs.good()) getline(lhs, token, ',')": pos is the 1-based
\* read position.  A getline that meets the end of the stream sets eofbit,
\* which ends the loop after its (possibly empty) token is stored.
RECURSIVE getline_loop(_, _, _)
getline_loop(lhs, pos, tokens) ==
  LET commas == {c \in pos..Len(lhs) : lhs[c] = CharComma}
  IN IF commas = {}
     THEN Append(tokens, SubSeq(lhs, pos, Len(lhs)))
     ELSE LET c == CHOOSE x \in commas : \A y \in commas : x <= y
          IN getline_loop(lhs, c + 1, Append(tokens, SubSeq(lhs, pos, c - 1)))

einsum_operand_labels(equation) == getline_loop(einsum_lhs(equation), 1, <<>>)

(***************************************************************************)
(* einsum: label counting and the rank check, one operand at a time.       *)
(***************************************************************************)
\* The inner loop over the characters of one operand's group.
RECURSIVE einsum_count_chars(_, _, _, _, _)
einsum_count_chars(labels, operand, i, st, p) ==
  IF st.err # "" \/ p > Len(labels) THEN st
  ELSE LET c == labels[p]
       IN IF c = CharSpace
          THEN einsum_count_chars(labels, operand, i, st, p + 1)
          ELSE IF ~(c >= CharA /\ c <= CharZ)
          THEN [st EXCEPT !.err = ErrSubscriptRange]
          ELSE IF ~(st.count < Dim(operand))
          THEN [st EXCEPT !.err = ErrDimOutOfRange]
          ELSE einsum_count_chars(labels, operand, i,
                 [st EXCEPT
                    !.label_last_operand[c - CharA] =
                       IF Size(operand, st.count) > 1 THEN i ELSE @,
                    !.label_count[c - CharA] = @ + 1,
                    !.count = @ + 1],
                 p + 1)

\* The outer loop over the operands (i is 0-based).
RECURSIVE einsum_count_labels(_, _, _, _)
einsum_count_labels(operand_labels, operands, i, st) ==
  IF st.err # "" \/ i >= Len(operands) THEN st
  ELSE LET s == einsum_count_chars(operand_labels[i + 1], operands[i + 1], i,
                                   [st EXCEPT !.count = 0], 1)
       IN IF s.err # "" THEN s
          ELSE IF s.count # Dim(operands[i + 1])
          THEN [s EXCEPT !.err = ErrRankMismatch]
          ELSE einsum_count_labels(operand_labels, operands, i + 1, s)

einsum_counts(equation, operands) ==
  einsum_count_labels(einsum_operand_labels(equation), operands, 0,
    [err |-> "",
     label_count |-> [l \in 0..(total_labels - 1) |-> 0],
     label_last_operand |-> [l \in 0..(total_labels - 1) |-> 0 - 1],
     count |-> 0])

(***************************************************************************)
(* einsum: the output labels and the contraction labels (the plan).        *)
(***************************************************************************)
\* Faulty variant: every label of the operands is output, not only the labels
\* counted once.
RECURSIVE einsum_implicit_output_all(_, _)
einsum_implicit_output_all(st, label) ==
  IF label >= total_labels THEN st
  ELSE einsum_implicit_output_all(
         IF st.label_count[label] >= 1
         THEN [st EXCEPT !.label_out_index[label] = st.out_index,
                         !.out_index = @ + 1,
                         !.permuted_labels = Append(@, label)]
         ELSE st,
         label + 1)

\* No "->": every label counted exactly once, in ascending order.
RECURSIVE einsum_implicit_output(_, _)
einsum_implicit_output(st, label) ==
  IF label >= total_labels THEN st
  ELSE einsum_implicit_output(
         IF st.label_count[label] = 1
         THEN [st EXCEPT !.label_out_index[label] = st.out_index,
                         !.out_index = @ + 1,
                         !.permuted_labels = Append(@, label)]
         ELSE st,
         label + 1)

\* Faulty variant: an output character that is no label is skipped like a
\* space.
RECURSIVE einsum_explicit_output_any_symbol(_, _, _)
einsum_explicit_output_any_symbol(rhs, st, p) ==
  IF st.err # "" \/ p > Len(rhs) THEN st
  ELSE LET c == rhs[p]
       IN IF c = CharSpace \/ ~(c >= CharA /\ c <= CharZ)
          THEN einsum_explicit_output_any_symbol(rhs, st, p + 1)
          ELSE IF ~(st.label_count[c - CharA] > 0)
          THEN [st EXCEPT !.err =
                  IF st.label_count[c - CharA] = -1
                  THEN ErrOutputRepeated ELSE ErrOutputUnknown]
          ELSE einsum_explicit_output_any_symbol(rhs,
                 [st EXCEPT !.label_count[c - CharA] = -1,
                            !.label_out_index[c - CharA] = st.out_index,
                            !.out_index = @ + 1,
                            !.permuted_labels = Append(@, c - CharA)],
                 p + 1)

\* Faulty variant: an output label is not marked as used, so that a second
\* occurrence of it in the output is accepted.
RECURSIVE einsum_explicit_output_unmarked(_, _, _)
einsum_explicit_output_unmarked(rhs, st, p) ==
  IF st.err # "" \/ p > Len(rhs) THEN st
  ELSE LET c == rhs[p]
       IN IF c = CharSpace
          THEN einsum_explicit_output_unmarked(rhs, st, p + 1)
          ELSE IF ~(c >= CharA /\ c <= CharZ)
          THEN [st EXCEPT !.err = ErrSubscriptRange]
          ELSE IF ~(st.label_count[c - CharA] > 0)
          THEN [st EXCEPT !.err = ErrOutputUnknown]
          ELSE einsum_explicit_output_unmarked(rhs,
                 [st EXCEPT !.label_out_index[c - CharA] = st.out_index,
                            !.out_index = @ + 1,
                            !.permuted_labels = Append(@, c - CharA)],
                 p + 1)

\* With "->": the characters of the right-hand side, in order.
RECURSIVE einsum_explicit_output(_, _, _)
einsum_explicit_output(rhs, st, p) ==
  IF st.err # "" \/ p > Len(rhs) THEN st
  ELSE LET c == rhs[p]
       IN IF c = CharSpace THEN einsum_explicit_output(rhs, st, p + 1)
          ELSE IF ~(c >= CharA /\ c <= CharZ)
          THEN [st EXCEPT !.err = ErrSubscriptRange]
          ELSE IF ~(st.label_count[c - CharA] > 0)
          THEN [st EXCEPT !.err = IF st.label_count[c - CharA] = 0 - 1
                                  THEN ErrOutputRepeated
                                  ELSE ErrOutputUnknown]
          ELSE einsum_explicit_output(rhs,
                 [st EXCEPT !.label_out_index[c - CharA] = st.out_index,
                            !.out_index = @ + 1,
                            !.label_count[c - CharA] = 0 - 1,
                            !.permuted_labels = Append(@, c - CharA)],
                 p + 1)

\* A faulty variant: the remaining labels are visited from the last label
\* of the alphabet down to the first.
RECURSIVE einsum_contraction_labels_descending(_, _)
einsum_contraction_labels_descending(st, label) ==
  IF label >= total_labels THEN st
  ELSE LET l == total_labels - 1 - label
       IN einsum_contraction_labels_descending(
            IF st.label_count[l] > 0 /\ st.label_out_index[l] = 0 - 1
            THEN [st EXCEPT !.label_out_index[l] = st.out_index,
                            !.out_index = @ + 1,
                            !.permuted_labels = Append(@, l)]
            ELSE st,
            label + 1)

\* The remaining labels of the operands, in ascending order.
RECURSIVE einsum_contraction_labels(_, _)
einsum_contraction_labels(st, label) ==
  IF label >= total_labels THEN st
  ELSE einsum_contraction_labels(
         IF st.label_count[label] > 0 /\ st.label_out_index[label] = 0 - 1
         THEN [st EXCEPT !.label_out_index[label] = st.out_index,
                         !.out_index = @ + 1,
                         !.permuted_labels = Append(@, label)]
         ELSE st,
         label + 1)

\* The plan of a call: err, label_count, label_last_operand, label_out_index,
\* permuted_labels, out_size, out_index.
einsum_plan(equation, operands) ==
  IF operands = <<>> THEN [err |-> ErrNoOperands]
  ELSE IF Len(einsum_operand_labels(equation)) # Len(operands)
  THEN [err |-> ErrOperandCount]
  ELSE
    LET counts == einsum_counts(equation, operands)
        st0 == [err |-> counts.err,
                label_count |-> counts.label_count,
                label_last_operand |-> counts.label_last_operand,
                label_out_index |-> [l \in 0..(total_labels - 1) |-> 0 - 1],
                permuted_labels |-> <<>>,
                out_index |-> 0,
                out_size |-> 0]
        st1 == IF find_arrow(equation) = npos
               THEN einsum_implicit_output(st0, 0)
               ELSE einsum_explicit_output(einsum_rhs(equation), st0, 1)
        st2 == [st1 EXCEPT !.out_size = st1.out_index]
    IN IF counts.err # "" THEN st0
       ELSE IF st1.err # "" THEN st1
       ELSE einsum_contraction_labels(st2, 0)

(***************************************************************************)
(* einsum: alignment of one operand with the plan's axis order.            *)
(***************************************************************************)
\* Faulty variant: the diagonal is left where Tensor::diagonal puts it, as the
\* last axis.
einsum_take_diagonal_last(operand, j, dim) == Diagonal(operand, j, dim)

\* operand.diagonal(0, j, dim) followed by
\* unsqueeze_(dim).transpose_(dim, -1).squeeze_(-1): the diagonal is moved
\* from the last axis to axis dim.
einsum_take_diagonal(operand, j, dim) ==
  Squeeze(Transpose(Unsqueeze(Diagonal(operand, j, dim), dim), dim, 0 - 1),
          0 - 1)

\* Faulty variant: a repeated label whose axes differ in extent is refused
\* only when both extents are greater than 1.
RECURSIVE einsum_align_chars_broadcasting(_, _, _, _)
einsum_align_chars_broadcasting(labels, plan, st, p) ==
  IF st.err # "" \/ p > Len(labels) THEN st
  ELSE LET c == labels[p]
       IN IF c = CharSpace
          THEN einsum_align_chars_broadcasting(labels, plan, st, p + 1)
          ELSE IF st.label_dim[c - CharA] # 0 - 1
          THEN LET dim == st.label_dim[c - CharA]
               IN IF /\ Size(st.operand, st.j) # Size(st.operand, dim)
                     /\ Size(st.operand, st.j) > 1
                     /\ Size(st.operand, dim) > 1
                  THEN [st EXCEPT !.err = ErrDiagonalSize]
                  ELSE einsum_align_chars_broadcasting(labels, plan,
                         [st EXCEPT !.operand =
                            einsum_take_diagonal(st.operand, st.j, dim)],
                         p + 1)
          ELSE einsum_align_chars_broadcasting(labels, plan,
                 [st EXCEPT
                    !.label_dim[c - CharA] = st.j,
                    !.perm_shape[plan.label_out_index[c - CharA] + 1] = st.j,
                    !.j = @ + 1],
                 p + 1)

\* The loop over the characters of the operand's group.
RECURSIVE einsum_align_chars(_, _, _, _)
einsum_align_chars(labels, plan, st, p) ==
  IF st.err # "" \/ p > Len(labels) THEN st
  ELSE LET c == labels[p]
       IN IF c = CharSpace THEN einsum_align_chars(labels, plan, st, p + 1)
          ELSE IF st.label_dim[c - CharA] # 0 - 1
          THEN LET dim == st.label_dim[c - CharA]
               IN IF Size(st.operand, st.j) # Size(st.operand, dim)
                  THEN [st EXCEPT !.err = ErrDiagonalSize]
                  ELSE einsum_align_chars(labels, plan,
                         [st EXCEPT !.operand =
                            einsum_take_diagonal(st.operand, st.j, dim)],
                         p + 1)
          ELSE einsum_align_chars(labels, plan,
                 [st EXCEPT
                    !.label_dim[c - CharA] = st.j,
                    !.perm_shape[plan.label_out_index[c - CharA] + 1] = st.j,
                    !.j = @ + 1],
                 p + 1)

\* The state after the loop over the characters: err, the operand with its
\* diagonals taken, perm_shape, label_dim and j.
einsum_diagonals(labels, operand, plan) ==
  einsum_align_chars(labels, plan,
    [err |-> "",
     operand |-> operand,
     perm_shape |-> [k \in 1..plan.out_index |-> 0 - 1],
     label_dim |-> [l \in 0..(total_labels - 1) |-> 0 - 1],
     j |-> 0],
    1)

\* The loop over perm_shape: a size-1 axis is appended for every slot that
\* the operand has no label for.
RECURSIVE einsum_fill_missing(_, _)
einsum_fill_missing(st, k) ==
  IF st.err # "" \/ k > Len(st.perm_shape) THEN st
  ELSE einsum_fill_missing(
         IF st.perm_shape[k] = 0 - 1
         THEN [st EXCEPT !.operand = Unsqueeze(st.operand, 0 - 1),
                         !.perm_shape[k] = st.j,
                         !.j = @ + 1]
         ELSE st,
         k + 1)

\* One iteration of the loop building permuted_operands: err, the operand
\* after diagonals and appended axes, and perm_shape.
einsum_align(labels, operand, plan) ==
  einsum_fill_missing(einsum_diagonals(labels, operand, plan), 1)

\* operand.permute(perm_shape), for the state st the alignment left.
einsum_permute(st) ==
  IF st.err # "" THEN Fail(st.err)
  ELSE Ok(Permute(st.operand, st.perm_shape))

\* Faulty variant: the aligned operand is not permuted into the plan's order.
einsum_permuted_operand_unpermuted(labels, operand, plan) ==
  LET st == einsum_align(labels, operand, plan)
  IN IF st.err # "" THEN Fail(st.err) ELSE Ok(st.operand)

\* permuted_operands.push_back(operand.permute(perm_shape)) for one operand.
einsum_permuted_operand(labels, operand, plan) ==
  einsum_permute(einsum_align(labels, operand, plan))

\* Faulty variant: an operand that cannot be broadcast against the product
\* so far is left out of the product.
RECURSIVE einsum_mul_loop_unchecked(_, _, _)
einsum_mul_loop_unchecked(permuted_operands, result, i) ==
  IF result.err # "" \/ i >= Len(permuted_operands) THEN result
  ELSE IF ~Broadcastable(result.val.sizes, permuted_operands[i + 1].val.sizes)
  THEN einsum_mul_loop_unchecked(permuted_operands, result, i + 1)
  ELSE einsum_mul_loop_unchecked(permuted_operands,
                       Ok(Mul(result.val, permuted_operands[i + 1].val)),
                       i + 1)

(***************************************************************************)
(* einsum: the product of the aligned operands and the final sum.          *)
(***************************************************************************)
\* result = result.mul(permuted_operands[i]) for i = 1, 2, ...
RECURSIVE einsum_mul_loop(_, _, _)
einsum_mul_loop(permuted_operands, result, i) ==
  IF result.err # "" \/ i >= Len(permuted_operands) THEN result
  ELSE IF ~Broadcastable(result.val.sizes, permuted_operands[i + 1].val.sizes)
  THEN Fail(ErrBroadcast)
  ELSE einsum_mul_loop(permuted_operands,
                       Ok(Mul(result.val, permuted_operands[i + 1].val)),
                       i + 1)

\* if (out_size < out_index) result = result.sum(sum_dims); return result
einsum_sum(plan, product) ==
  IF product.err # "" THEN product
  ELSE IF plan.out_size < plan.out_index
  THEN Ok(SumDims(product.val, plan.out_size..(plan.out_index - 1), FALSE))
  ELSE product

\* The product and the sum of the aligned operands; an operand whose
\* alignment failed ended the align loop with its error.
einsum_result(plan, permuted_operands) ==
  LET bad == {i \in 1..Len(permuted_operands) : permuted_operands[i].err # ""}
      first_bad == CHOOSE i \in bad : \A k \in bad : i <= k
  IN IF bad # {} THEN Fail(permuted_operands[first_bad].err)
     ELSE einsum_sum(plan, einsum_mul_loop(permuted_operands,
                                           permuted_operands[1], 1))

\* The align loop over the operands and what follows it.
einsum_compute(operand_labels, operands, plan) ==
  IF plan.err # "" THEN Fail(plan.err)
  ELSE einsum_result(plan,
         [i \in 1..Len(operands) |->
            einsum_permuted_operand(operand_labels[i], operands[i], plan)])

einsum(equation, operands) ==
  einsum_compute(einsum_operand_labels(equation), operands,
                 einsum_plan(equation, operands))

(***************************************************************************)
(* at::dim_list_to_bitset: every dim must be an axis and none may repeat.  *)
(***************************************************************************)
ErrDimRepeated == "dim appears multiple times in the list of dims"

dim_list_to_bitset_err(dims, ndims) ==
  IF \E k \in 1..Len(dims) : ~(dims[k] >= 0 - ndims /\ dims[k] < ndims)
  THEN ErrDimOutOfRange
  ELSE IF \E k, m \in 1..Len(dims) :
            k # m /\ WrapDim(dims[k], ndims) = WrapDim(dims[m], ndims)
  THEN ErrDimRepeated
  ELSE ""

dim_list_to_bitset(dims, ndims) ==
  {WrapDim(dims[k], ndims) : k \in 1..Len(dims)}

(***************************************************************************)
(* sumproduct_pair: (left * right).sum(sum_dims) by permutation and one    *)
(* batched matrix multiplication.                                          *)
(***************************************************************************)
ErrPairRank == "number of dimensions must match"

ErrPairSize == "non-broadcast dimensions must match"

\* A faulty variant of the classification loop: a summed axis on which both
\* operands have an extent above 1 is not compared; each side is summed
\* over it right away.
RECURSIVE sumproduct_pair_classify_unchecked(_, _, _)
sumproduct_pair_classify_unchecked(sum_dims, st, i) ==
  IF st.err # "" \/ i >= Dim(st.left) THEN st
  ELSE
    LET sl == Size(st.left, i) > 1
        sr == Size(st.right, i) > 1
        same == Size(st.left, i) = Size(st.right, i)
        next ==
          IF i \in sum_dims
          THEN IF sl /\ sr /\ same
               THEN [st EXCEPT !.sum_size = @ * Size(st.left, i)]
               ELSE [st EXCEPT !.left = SumDims(st.left, {i}, TRUE),
                               !.right = SumDims(st.right, {i}, TRUE)]
          ELSE IF sl /\ sr
          THEN IF ~same THEN [st EXCEPT !.err = ErrPairSize]
               ELSE [st EXCEPT !.lro = Append(@, i),
                               !.lro_size = @ * Size(st.left, i)]
          ELSE IF sl
          THEN [st EXCEPT !.lo = Append(@, i),
                          !.lo_size = @ * Size(st.left, i)]
          ELSE [st EXCEPT !.ro = Append(@, i),
                          !.ro_size = @ * Size(st.right, i)]
    IN sumproduct_pair_classify_unchecked(sum_dims, next, i + 1)

\* The classification loop over the axes i = 0 .. dim-1.
RECURSIVE sumproduct_pair_classify(_, _, _)
sumproduct_pair_classify(sum_dims, st, i) ==
  IF st.err # "" \/ i >= Dim(st.left) THEN st
  ELSE
    LET sl == Size(st.left, i) > 1
        sr == Size(st.right, i) > 1
        same == Size(st.left, i) = Size(st.right, i)
        next ==
          IF i \in sum_dims
          THEN IF sl /\ sr
               THEN IF ~same THEN [st EXCEPT !.err = ErrPairSize]
                    ELSE [st EXCEPT !.sum_size = @ * Size(st.left, i)]
               ELSE IF sl
               THEN [st EXCEPT !.left = SumDims(st.left, {i}, TRUE)]
               ELSE IF sr
               THEN [st EXCEPT !.right = SumDims(st.right, {i}, TRUE)]
               ELSE st
          ELSE IF sl /\ sr
          THEN IF ~same THEN [st EXCEPT !.err = ErrPairSize]
               ELSE [st EXCEPT !.lro = Append(@, i),
                               !.lro_size = @ * Size(st.left, i)]
          ELSE IF sl
          THEN [st EXCEPT !.lo = Append(@, i),
                          !.lo_size = @ * Size(st.left, i)]
          ELSE [st EXCEPT !.ro = Append(@, i),
                          !.ro_size = @ * Size(st.right, i)]
    IN sumproduct_pair_classify(sum_dims, next, i + 1)

\* A faulty variant: the order "lro, lo, summed, ro" itself is used to
\* permute the output back, in place of its inverse.
sumproduct_pair_opermutation_forward(lro, lo, sum_dims_, ro) ==
  lro \o lo \o sum_dims_ \o ro

\* opermutation[d] is the position of axis d in "lro, lo, summed, ro";
\* an entry no loop writes stays -1.
sumproduct_pair_opermutation(lro, lo, sum_dims_, ro) ==
  LET order == lro \o lo \o sum_dims_ \o ro
  IN [d \in 1..Len(order) |->
        IF \E k \in 1..Len(order) : order[k] = d - 1
        THEN (CHOOSE k \in 1..Len(order) :
                order[k] = d - 1
                /\ \A m \in 1..Len(order) : order[m] = d - 1 => m <= k) - 1
        ELSE 0 - 1]

\* lpermutation "lro, lo, summed, ro", rpermutation "lro, summed, ro, lo"
\* and opermutation, from the classes the loop has filled.
sumproduct_pair_permutations(st, sum_dims_) ==
  [lpermutation |-> st.lro \o st.lo \o sum_dims_ \o st.ro,
   rpermutation |-> st.lro \o sum_dims_ \o st.ro \o st.lo,
   opermutation |->
     sumproduct_pair_opermutation(st.lro, st.lo, sum_dims_, st.ro)]

\* The permute / reshape / bmm / view / permute pipeline and the final
\* removal of the summed axes.
sumproduct_pair_execute(st, sum_dims_, sum_dims, keepdim) ==
  LET out_size ==
        [k \in 1..Len(st.lro) |-> Size(st.left, st.lro[k])]
        \o [k \in 1..Len(st.lo) |-> Size(st.left, st.lo[k])]
        \o [k \in 1..Len(sum_dims_) |-> 1]
        \o [k \in 1..Len(st.ro) |-> Size(st.right, st.ro[k])]
      lpermutation == sumproduct_pair_permutations(st, sum_dims_).lpermutation
      rpermutation == sumproduct_pair_permutations(st, sum_dims_).rpermutation
      opermutation == sumproduct_pair_permutations(st, sum_dims_).opermutation
      left == Reshape(Permute(st.left, lpermutation),
                      <<st.lro_size, st.lo_size, st.sum_size>>)
      right == Reshape(Permute(st.right, rpermutation),
                       <<st.lro_size, st.sum_size, st.ro_size>>)
      result == Permute(Reshape(Bmm(left, right), out_size), opermutation)
      sizes == FilterFrom(result.sizes, LAMBDA k : (k - 1) \notin sum_dims, 1)
  IN IF keepdim THEN result ELSE Reshape(result, sizes)

\* The locals after the loop over the axes: left, right, the classes lro,
\* lo, ro and the four sizes, or the error of the loop.
sumproduct_pair_loop(left_, right_, sum_dims_) ==
  sumproduct_pair_classify(dim_list_to_bitset(sum_dims_, Dim(left_)),
    [err |-> "", left |-> left_, right |-> right_,
     lro |-> <<>>, lo |-> <<>>, ro |-> <<>>,
     lro_size |-> 1, lo_size |-> 1, ro_size |-> 1,
     sum_size |-> 1],
    0)

sumproduct_pair(left_, right_, sum_dims_, keepdim) ==
  IF Dim(left_) # Dim(right_) THEN Fail(ErrPairRank)
  ELSE IF Len(sum_dims_) = 0
  THEN IF Broadcastable(left_.sizes, right_.sizes)
       THEN Ok(Mul(left_, right_))
       ELSE Fail(ErrBroadcast)
  ELSE IF dim_list_to_bitset_err(sum_dims_, Dim(left_)) # ""
  THEN Fail(dim_list_to_bitset_err(sum_dims_, Dim(left_)))
  ELSE
    LET sum_dims == dim_list_to_bitset(sum_dims_, Dim(left_))
        st == sumproduct_pair_loop(left_, right_, sum_dims_)
    IN IF st.err # "" THEN Fail(st.err)
       ELSE Ok(sumproduct_pair_execute(st, sum_dims_, sum_dims, keepdim))

(***************************************************************************)
(* _trilinear: (i1.unsqueeze(expand1) * i2.unsqueeze(expand2) *            *)
(* i3.unsqueeze(expand3)).sum(sumdim), unrolled along unroll_dim.          *)
(***************************************************************************)
ErrUnrollDim == "unroll_dim must be in [0, total_dim - 1]"

\* Raised by Tensor::narrow when the slice is not inside the axis.
ErrNarrow == "start out of range"

\* Raised by an in-place add_ whose result would not have the shape of the
\* tensor written to.
ErrInplaceShape == "output with shape doesn't match the broadcast shape"

\* One operand in one iteration of the loop over i: the axis is inserted,
\* or its extent is read into s.
trilinear_expand_one(st, t, expanded, i) ==
  IF st.err # "" THEN [err |-> st.err, t |-> t, s |-> st.s]
  ELSE IF expanded
  THEN IF i > Dim(t) THEN [err |-> ErrDimOutOfRange, t |-> t, s |-> st.s]
       ELSE [err |-> "", t |-> Unsqueeze(t, i), s |-> st.s]
  ELSE IF i >= Dim(t) THEN [err |-> ErrDimOutOfRange, t |-> t, s |-> st.s]
       ELSE [err |-> "", t |-> t, s |-> Size(t, i)]

\* The loop over i = 0 .. total_dim-1.
RECURSIVE trilinear_expand(_, _, _, _, _, _, _, _)
trilinear_expand(expand1, expand2, expand3, sumdim, unroll_dim, total_dim, st, i) ==
  IF st.err # "" \/ i >= total_dim THEN st
  ELSE
    LET r1 == trilinear_expand_one([err |-> "", s |-> 0], st.i1,
                                   i \in expand1, i)
        r2 == trilinear_expand_one(r1, st.i2, i \in expand2, i)
        r3 == trilinear_expand_one(r2, st.i3, i \in expand3, i)
        summed == i \in sumdim /\ i # unroll_dim
    IN IF r3.err # "" THEN [st EXCEPT !.err = r3.err]
       ELSE trilinear_expand(expand1, expand2, expand3, sumdim, unroll_dim,
              total_dim,
              [st EXCEPT
                 !.i1 = r1.t, !.i2 = r2.t, !.i3 = r3.t,
                 !.sum_dims_12 =
                    IF (i \in expand3) /\ summed THEN Append(@, i) ELSE @,
                 !.sum_dims_23 =
                    IF (i \notin expand3) /\ summed THEN Append(@, i) ELSE @,
                 !.output_size =
                    Append(@, IF i \in sumdim THEN 1 ELSE r3.s),
                 !.unroll_size = IF i = unroll_dim THEN r3.s ELSE @],
              i + 1)

\* output.narrow(d, k, 1).add_(buf): buf is added into slot k of axis d.
AddIntoSlice(output, d, k, buf) ==
  MkTensor(output.sizes,
           LAMBDA idx :
             IF idx[d + 1] = k
             THEN At(output, idx)
                  + BroadcastAt(buf, [m \in 1..Len(idx) |->
                                        IF m = d + 1 THEN 0 ELSE idx[m]])
             ELSE At(output, idx))

\* output.narrow(unroll_dim, k, 1).add_(buf) when unroll_dim is not summed,
\* output.add_(buf) when it is.
trilinear_accumulate(output, sumdim, unroll_dim, k, buf) ==
  IF buf.err # "" THEN buf
  ELSE IF unroll_dim \notin sumdim
  THEN IF Broadcastable([output EXCEPT !.sizes[unroll_dim + 1] = 1].sizes,
                        buf.val.sizes)
          /\ BroadcastSizes([output EXCEPT !.sizes[unroll_dim + 1] = 1].sizes,
                            buf.val.sizes)
             = [output EXCEPT !.sizes[unroll_dim + 1] = 1].sizes
       THEN Ok(AddIntoSlice(output, unroll_dim, k, buf.val))
       ELSE Fail(ErrInplaceShape)
  ELSE IF Broadcastable(output.sizes, buf.val.sizes)
          /\ BroadcastSizes(output.sizes, buf.val.sizes) = output.sizes
       THEN Ok(Add(output, buf.val))
       ELSE Fail(ErrInplaceShape)

\* buf = sumproduct_pair(buf, i3.narrow(unroll_dim, k * slicemul3, 1),
\* sum_dims_23, true), then the accumulation; buf12 is the first contraction.
trilinear_step_buf(st, output, sumdim, unroll_dim, k, buf12) ==
  LET slicemul3 == IF unroll_dim \in st.expand3 THEN 0 ELSE 1
  IN IF buf12.err # "" THEN buf12
     ELSE IF ~(k * slicemul3 < Size(st.i3, unroll_dim)) THEN Fail(ErrNarrow)
     ELSE trilinear_accumulate(output, sumdim, unroll_dim, k,
            sumproduct_pair(buf12.val,
                            Narrow(st.i3, unroll_dim, k * slicemul3),
                            st.sum_dims_23, TRUE))

\* The body of both unrolled loops for one k: two pairwise contractions of
\* the slices, then the in-place accumulation into output.
trilinear_step(st, output, sumdim, unroll_dim, k) ==
  LET slicemul1 == IF unroll_dim \in st.expand1 THEN 0 ELSE 1
      slicemul2 == IF unroll_dim \in st.expand2 THEN 0 ELSE 1
  IN IF ~(k * slicemul1 < Size(st.i1, unroll_dim))
        \/ ~(k * slicemul2 < Size(st.i2, unroll_dim))
     THEN Fail(ErrNarrow)
     ELSE trilinear_step_buf(st, output, sumdim, unroll_dim, k,
            sumproduct_pair(Narrow(st.i1, unroll_dim, k * slicemul1),
                            Narrow(st.i2, unroll_dim, k * slicemul2),
                            st.sum_dims_12, TRUE))

\* for (k = 0; k < unroll_size; k++) ...
RECURSIVE trilinear_unroll(_, _, _, _, _)
trilinear_unroll(st, output, sumdim, unroll_dim, k) ==
  IF output.err # "" \/ k >= st.unroll_size THEN output
  ELSE trilinear_unroll(st,
         trilinear_step(st, output.val, sumdim, unroll_dim, k),
         sumdim, unroll_dim, k + 1)

\* for (i = output.dim()-1; i >= 0; i--) if (sumdim[i]) output.squeeze_(i)
RECURSIVE trilinear_squeeze(_, _, _)
trilinear_squeeze(output, sumdim, i) ==
  IF i < 0 THEN output
  ELSE trilinear_squeeze(IF i \in sumdim THEN Squeeze(output, i) ELSE output,
                         sumdim, i - 1)

\* The squeeze loop and the return, for the output the unroll loops left.
trilinear_return(output, sumdim) ==
  IF output.err # "" THEN output
  ELSE Ok(trilinear_squeeze(output.val, sumdim, Dim(output.val) - 1))

\* auto output = at::zeros(output_size, ...), the unroll loops and the
\* squeeze loop, for the state st the loop over i left.
trilinear_output(st, sumdim, unroll_dim) ==
  IF st.err # "" THEN Fail(st.err)
  ELSE trilinear_return(
         trilinear_unroll(st, Ok(Zeros(st.output_size)), sumdim, unroll_dim, 0),
         sumdim)

\* Faulty variant: unroll_dim is checked after the lists of axes have been
\* turned into bitsets.
_trilinear_late_check(i1_, i2_, i3_, expand1_, expand2_, expand3_, sumdim_, unroll_dim) ==
  LET total_dim == Dim(i1_) + Len(expand1_)
      biterr == LET e1 == dim_list_to_bitset_err(expand1_, total_dim)
                    e2 == dim_list_to_bitset_err(expand2_, total_dim)
                    e3 == dim_list_to_bitset_err(expand3_, total_dim)
                    e4 == dim_list_to_bitset_err(sumdim_, total_dim)
                IN IF e1 # "" THEN e1 ELSE IF e2 # "" THEN e2
                   ELSE IF e3 # "" THEN e3 ELSE e4
      expand1 == dim_list_to_bitset(expand1_, total_dim)
      expand2 == dim_list_to_bitset(expand2_, total_dim)
      expand3 == dim_list_to_bitset(expand3_, total_dim)
      sumdim == dim_list_to_bitset(sumdim_, total_dim)
  IN IF biterr # "" THEN Fail(biterr)
     ELSE IF ~(unroll_dim >= 0 /\ unroll_dim < total_dim) THEN Fail(ErrUnrollDim)
     ELSE trilinear_output(
            trilinear_expand(expand1, expand2, expand3, sumdim, unroll_dim,
              total_dim,
              [err |-> "", i1 |-> i1_, i2 |-> i2_, i3 |-> i3_,
               expand1 |-> expand1, expand2 |-> expand2, expand3 |-> expand3,
               output_size |-> <<>>,
               sum_dims_12 |-> <<>>, sum_dims_23 |-> <<>>,
               unroll_size |-> 0 - 1],
              0),
            sumdim, unroll_dim)

_trilinear(i1_, i2_, i3_, expand1_, expand2_, expand3_, sumdim_, unroll_dim) ==
  LET total_dim == Dim(i1_) + Len(expand1_)
      biterr == LET e1 == dim_list_to_bitset_err(expand1_, total_dim)
                    e2 == dim_list_to_bitset_err(expand2_, total_dim)
                    e3 == dim_list_to_bitset_err(expand3_, total_dim)
                    e4 == dim_list_to_bitset_err(sumdim_, total_dim)
                IN IF e1 # "" THEN e1 ELSE IF e2 # "" THEN e2
                   ELSE IF e3 # "" THEN e3 ELSE e4
      expand1 == dim_list_to_bitset(expand1_, total_dim)
      expand2 == dim_list_to_bitset(expand2_, total_dim)
      expand3 == dim_list_to_bitset(expand3_, total_dim)
      sumdim == dim_list_to_bitset(sumdim_, total_dim)
  IN IF ~(unroll_dim >= 0 /\ unroll_dim < total_dim) THEN Fail(ErrUnrollDim)
     ELSE IF biterr # "" THEN Fail(biterr)
     ELSE trilinear_output(
            trilinear_expand(expand1, expand2, expand3, sumdim, unroll_dim,
              total_dim,
              [err |-> "", i1 |-> i1_, i2 |-> i2_, i3 |-> i3_,
               expand1 |-> expand1, expand2 |-> expand2, expand3 |-> expand3,
               output_size |-> <<>>,
               sum_dims_12 |-> <<>>, sum_dims_23 |-> <<>>,
               unroll_size |-> 0 - 1],
              0),
            sumdim, unroll_dim)

(***************************************************************************)
(* bilinear.                                                               *)
(***************************************************************************)
ErrBilinearDims == "bilinear(): input dimensions do not match"

ErrBilinearBatch == "bilinear(): input batch dimensions do not match"

ErrBilinearInput1 == "bilinear(): input1 size does not match weight size"

ErrBilinearInput2 == "bilinear(): input2 size does not match weight size"

ErrBilinearBias == "bilinear(): bias size does not match weight size"

\* An undefined Tensor (bias.defined() is false).
Undefined == [sizes |-> <<>>, data |-> <<>>, undefined |-> TRUE]

defined(t) == "undefined" \notin DOMAIN t

\* input.view({-1, input.size(-1)})
bilinear_flatten(input) ==
  LET last == Size(input, Dim(input) - 1)
  IN Reshape(input, <<Numel(input.sizes) \div last, last>>)

\* if (bias.defined()) output = output + bias; return output
bilinear_add_bias(output, bias) ==
  IF defined(bias)
  THEN IF Broadcastable(output.sizes, bias.sizes)
       THEN Ok(Add(output, bias)) ELSE Fail(ErrBroadcast)
  ELSE Ok(output)

\* .reshape(output_size) of what _trilinear returned, then the bias.
bilinear_output(tri, output_size, bias) ==
  IF tri.err # "" THEN tri
  ELSE IF ~CanReshape(tri.val, output_size) THEN Fail(ErrBroadcast)
  ELSE bilinear_add_bias(Reshape(tri.val, output_size), bias)

\* Faulty variant: the length of the bias is not compared with weight.size(0).
bilinear_unchecked_bias(input1, input2, weight, bias, unroll_dim) ==
  IF Dim(input1) # Dim(input2) THEN Fail(ErrBilinearDims)
  ELSE IF \E i \in 0..(Dim(input1) - 2) : Size(input1, i) # Size(input2, i)
  THEN Fail(ErrBilinearBatch)
  ELSE IF Size(input1, Dim(input1) - 1) # Size(weight, 1)
  THEN Fail(ErrBilinearInput1)
  ELSE IF Size(input2, Dim(input2) - 1) # Size(weight, 2)
  THEN Fail(ErrBilinearInput2)
  ELSE bilinear_output(
         _trilinear(bilinear_flatten(input1), weight, bilinear_flatten(input2),
                    <<1, 3>>, <<0>>, <<1, 2>>, <<2, 3>>, unroll_dim),
         SubSeq(input1.sizes, 1, Dim(input1) - 1) \o <<Size(weight, 0)>>,
         bias)

\* Faulty variant: the bias is not added.
bilinear_without_bias(input1, input2, weight, bias, unroll_dim) ==
  IF Dim(input1) # Dim(input2) THEN Fail(ErrBilinearDims)
  ELSE IF \E i \in 0..(Dim(input1) - 2) : Size(input1, i) # Size(input2, i)
  THEN Fail(ErrBilinearBatch)
  ELSE IF Size(input1, Dim(input1) - 1) # Size(weight, 1)
  THEN Fail(ErrBilinearInput1)
  ELSE IF Size(input2, Dim(input2) - 1) # Size(weight, 2)
  THEN Fail(ErrBilinearInput2)
  ELSE IF ~(~defined(bias) \/ Size(bias, 0) = Size(weight, 0))
  THEN Fail(ErrBilinearBias)
  ELSE bilinear_output(
         _trilinear(bilinear_flatten(input1), weight, bilinear_flatten(input2),
                    <<1, 3>>, <<0>>, <<1, 2>>, <<2, 3>>, unroll_dim),
         SubSeq(input1.sizes, 1, Dim(input1) - 1) \o <<Size(weight, 0)>>,
         Undefined)

\* The call of _trilinear in bilinear passes no unroll_dim: the value used
\* is the default of _trilinear's declaration, the parameter unroll_dim here.
bilinear(input1, input2, weight, bias, unroll_dim) ==
  IF Dim(input1) # Dim(input2) THEN Fail(ErrBilinearDims)
  ELSE IF \E i \in 0..(Dim(input1) - 2) : Size(input1, i) # Size(input2, i)
  THEN Fail(ErrBilinearBatch)
  ELSE IF Size(input1, Dim(input1) - 1) # Size(weight, 1)
  THEN Fail(ErrBilinearInput1)
  ELSE IF Size(input2, Dim(input2) - 1) # Size(weight, 2)
  THEN Fail(ErrBilinearInput2)
  ELSE IF ~(~defined(bias) \/ Size(bias, 0) = Size(weight, 0))
  THEN Fail(ErrBilinearBias)
  ELSE bilinear_output(
         _trilinear(bilinear_flatten(input1), weight, bilinear_flatten(input2),
                    <<1, 3>>, <<0>>, <<1, 2>>, <<2, 3>>, unroll_dim),
         SubSeq(input1.sizes, 1, Dim(input1) - 1) \o <<Size(weight, 0)>>,
         bias)

(***************************************************************************)
(* tensordot.                                                              *)
(***************************************************************************)
\* Raised by Tensor::permute when the list is not a permutation of the axes.
ErrPermute == "repeated dim in permute"

ErrTensordotLen == "both dimension lists should have same length"

ErrTensordotSize == "contracted dimensions need to match"

\* Faulty variant: for a pair with an extent of 1 the other side is not summed:
\* its first slice is taken.
RECURSIVE tensordot_pairs_first_slice(_, _, _, _, _, _)
tensordot_pairs_first_slice(input1, input2, dims1, dims2, st, i) ==
  IF st.err # "" \/ i >= Len(dims1) THEN st
  ELSE IF ~(dims1[i + 1] >= 0 - Dim(input1) /\ dims1[i + 1] < Dim(input1))
          \/ ~(dims2[i + 1] >= 0 - Dim(input2) /\ dims2[i + 1] < Dim(input2))
  THEN [st EXCEPT !.err = ErrDimOutOfRange]
  ELSE
    LET d1 == WrapDim(dims1[i + 1], Dim(input1))
        d2 == WrapDim(dims2[i + 1], Dim(input2))
        s1 == Size(input1, d1)
        s2 == Size(input2, d2)
        next == IF s2 = 1
                THEN [st EXCEPT !.t1 = Narrow(st.t1, d1, 0)]
                ELSE IF s1 = 1
                THEN [st EXCEPT !.t2 = Narrow(st.t2, d2, 0)]
                ELSE IF s1 # s2 THEN [st EXCEPT !.err = ErrTensordotSize]
                ELSE [st EXCEPT !.csize = @ * s1]
    IN tensordot_pairs_first_slice(input1, input2, dims1, dims2, next, i + 1)

\* Faulty variant: paired axes of different extents are refused even when
\* one of the extents is 1.
RECURSIVE tensordot_pairs_strict(_, _, _, _, _, _)
tensordot_pairs_strict(input1, input2, dims1, dims2, st, i) ==
  IF st.err # "" \/ i >= Len(dims1) THEN st
  ELSE IF ~(dims1[i + 1] >= 0 - Dim(input1) /\ dims1[i + 1] < Dim(input1))
          \/ ~(dims2[i + 1] >= 0 - Dim(input2) /\ dims2[i + 1] < Dim(input2))
  THEN [st EXCEPT !.err = ErrDimOutOfRange]
  ELSE
    LET d1 == WrapDim(dims1[i + 1], Dim(input1))
        d2 == WrapDim(dims2[i + 1], Dim(input2))
        s1 == Size(input1, d1)
        s2 == Size(input2, d2)
        next == IF s1 # s2 THEN [st EXCEPT !.err = ErrTensordotSize]
                ELSE [st EXCEPT !.csize = @ * s1]
    IN tensordot_pairs_strict(input1, input2, dims1, dims2, next, i + 1)

\* The loop over the pairs (dims1[i], dims2[i]): a pair with an extent of 1
\* is summed right away on the other side, any other pair must match.
RECURSIVE tensordot_pairs(_, _, _, _, _, _)
tensordot_pairs(input1, input2, dims1, dims2, st, i) ==
  IF st.err # "" \/ i >= Len(dims1) THEN st
  ELSE IF ~(dims1[i + 1] >= 0 - Dim(input1) /\ dims1[i + 1] < Dim(input1))
          \/ ~(dims2[i + 1] >= 0 - Dim(input2) /\ dims2[i + 1] < Dim(input2))
  THEN [st EXCEPT !.err = ErrDimOutOfRange]
  ELSE
    LET d1 == WrapDim(dims1[i + 1], Dim(input1))
        d2 == WrapDim(dims2[i + 1], Dim(input2))
        s1 == Size(input1, d1)
        s2 == Size(input2, d2)
        next == IF s2 = 1
                THEN [st EXCEPT !.t1 = SumDims(st.t1, {d1}, TRUE)]
                ELSE IF s1 = 1
                THEN [st EXCEPT !.t2 = SumDims(st.t2, {d2}, TRUE)]
                ELSE IF s1 # s2 THEN [st EXCEPT !.err = ErrTensordotSize]
                ELSE [st EXCEPT !.csize = @ * s1]
    IN tensordot_pairs(input1, input2, dims1, dims2, next, i + 1)

\* Faulty variant: the loop that appends the contracted axes to p1 is
\* missing.
tensordot_layout_free_only(st, dims1, dims2, cdims1, cdims2) ==
  LET free1 == AscendingIn((0..(Dim(st.t1) - 1)) \ cdims1, 0, Dim(st.t1))
      free2 == AscendingIn((0..(Dim(st.t2) - 1)) \ cdims2, 0, Dim(st.t2))
      rsizes1 == [k \in 1..Len(free1) |-> Size(st.t1, free1[k])]
      rsizes2 == [k \in 1..Len(free2) |-> Size(st.t2, free2[k])]
  IN [p1 |-> free1,
      p2 |-> [k \in 1..Len(dims2) |-> WrapDim(dims2[k], Dim(st.t2))] \o free2,
      rsizes |-> rsizes1 \o rsizes2,
      size1 |-> Numel(rsizes1),
      size2 |-> Numel(rsizes2)]

\* Faulty variant: the free axes of the second operand come first in the result.
tensordot_layout_swapped(st, dims1, dims2, cdims1, cdims2) ==
  LET free1 == AscendingIn((0..(Dim(st.t1) - 1)) \ cdims1, 0, Dim(st.t1))
      free2 == AscendingIn((0..(Dim(st.t2) - 1)) \ cdims2, 0, Dim(st.t2))
      rsizes1 == [k \in 1..Len(free1) |-> Size(st.t1, free1[k])]
      rsizes2 == [k \in 1..Len(free2) |-> Size(st.t2, free2[k])]
  IN [p1 |-> free1 \o [k \in 1..Len(dims1) |-> WrapDim(dims1[k], Dim(st.t1))],
      p2 |-> [k \in 1..Len(dims2) |-> WrapDim(dims2[k], Dim(st.t2))] \o free2,
      rsizes |-> rsizes2 \o rsizes1,
      size1 |-> Numel(rsizes1),
      size2 |-> Numel(rsizes2)]

\* p1, p2, rsizes, size1 and size2 as the four filling loops leave them.
tensordot_layout(st, dims1, dims2, cdims1, cdims2) ==
  LET free1 == AscendingIn((0..(Dim(st.t1) - 1)) \ cdims1, 0, Dim(st.t1))
      free2 == AscendingIn((0..(Dim(st.t2) - 1)) \ cdims2, 0, Dim(st.t2))
      rsizes1 == [k \in 1..Len(free1) |-> Size(st.t1, free1[k])]
      rsizes2 == [k \in 1..Len(free2) |-> Size(st.t2, free2[k])]
  IN [p1 |-> free1 \o [k \in 1..Len(dims1) |-> WrapDim(dims1[k], Dim(st.t1))],
      p2 |-> [k \in 1..Len(dims2) |-> WrapDim(dims2[k], Dim(st.t2))] \o free2,
      rsizes |-> rsizes1 \o rsizes2,
      size1 |-> Numel(rsizes1),
      size2 |-> Numel(rsizes2)]

\* auto cdims1 = at::dim_list_to_bitset(dims1, input1.dim()) and the same
\* for dims2: the error of the first that fails, "" when neither does.
tensordot_bitsets_err(input1, input2, dims1, dims2) ==
  LET e1 == dim_list_to_bitset_err(dims1, Dim(input1))
      e2 == dim_list_to_bitset_err(dims2, Dim(input2))
  IN IF e1 # "" THEN e1 ELSE e2

\* The permutations, the reshapes and at::mm, for the state st the loop over
\* the pairs left.
tensordot_mm(st, input1, input2, dims1, dims2) ==
  LET lay == tensordot_layout(st, dims1, dims2,
                              dim_list_to_bitset(dims1, Dim(input1)),
                              dim_list_to_bitset(dims2, Dim(input2)))
      t1 == Reshape(Permute(st.t1, lay.p1), <<lay.size1, st.csize>>)
      t2 == Reshape(Permute(st.t2, lay.p2), <<st.csize, lay.size2>>)
  IN IF ~IsPermutation(lay.p1, Dim(st.t1))
        \/ ~IsPermutation(lay.p2, Dim(st.t2))
     THEN Fail(ErrPermute)
     ELSE Ok(Reshape(Mm(t1, t2), lay.rsizes))

\* What follows the loop over the pairs.
tensordot_after_pairs(st, input1, input2, dims1, dims2) ==
  IF st.err # "" THEN Fail(st.err)
  ELSE IF tensordot_bitsets_err(input1, input2, dims1, dims2) # ""
  THEN Fail(tensordot_bitsets_err(input1, input2, dims1, dims2))
  ELSE tensordot_mm(st, input1, input2, dims1, dims2)

\* The local variables of tensordot before the loop over the pairs.
tensordot_locals(input1, input2) ==
  [err |-> "", t1 |-> input1, t2 |-> input2, csize |-> 1]

tensordot(input1, input2, dims1, dims2) ==
  IF Len(dims1) # Len(dims2) THEN Fail(ErrTensordotLen)
  ELSE tensordot_after_pairs(
         tensordot_pairs(input1, input2, dims1, dims2,
                         tensordot_locals(input1, input2), 0),
         input1, input2, dims1, dims2)

\* One pass of the loop over the pairs, for the pair i (0-based).
tensordot_pair(input1, input2, dims1, dims2, st, i) ==
  tensordot_pairs(input1, input2, SubSeq(dims1, 1, i + 1),
                  SubSeq(dims2, 1, i + 1), st, i)

\* The pass for the pair i calls sum: both axes exist and one of the two
\* extents is 1.
tensordot_pair_sums(input1, input2, dims1, dims2, i) ==
  /\ dims1[i + 1] >= 0 - Dim(input1) /\ dims1[i + 1] < Dim(input1)
  /\ dims2[i + 1] >= 0 - Dim(input2) /\ dims2[i + 1] < Dim(input2)
  /\ \/ Size(input2, WrapDim(dims2[i + 1], Dim(input2))) = 1
     \/ Size(input1, WrapDim(dims1[i + 1], Dim(input1))) = 1

(***************************************************************************)
(* The inputs of the calls.                                                *)
(***************************************************************************)
\* The entries of the operand in position pos (1, 2, ...) of a call: all
\* different, and different from those of the other operands.
Operand(sizes, pos) ==
  [sizes |-> sizes,
   data |-> [n \in 1..Numel(sizes) |-> n * n + pos]]

Shapes(maxrank) == UNION {[1..n -> 1..MaxExtent] : n \in 0..maxrank}

\* Shapes of 1 .. maxrank axes whose extents are MaxExtent or MaxExtent + 1:
\* two of them can differ in an extent without either being 1.
WideShapes(maxrank) ==
  UNION {[1..n -> {MaxExtent, MaxExtent + 1}] : n \in 1..maxrank}

\* Lists of 1 .. maxlen operands with such shapes.
WideOperandLists(maxlen, maxrank) ==
  UNION {{[k \in 1..n |-> Operand(shapes[k], k)] :
            shapes \in [1..n -> WideShapes(maxrank)]} : n \in 1..maxlen}

\* Lists of 0 .. maxlen operands.
OperandLists(maxlen, maxrank) ==
  UNION {{[k \in 1..n |-> Operand(shapes[k], k)] :
            shapes \in [1..n -> Shapes(maxrank)]} : n \in 0..maxlen}

\* The labels "i", "j" and "k".
Labels == {CharA + 8, CharA + 9, CharA + 10}

Groups(maxlen) == UNION {[1..n -> Labels] : n \in 0..maxlen}

RECURSIVE JoinGroups(_, _)
JoinGroups(groups, k) ==
  IF k > Len(groups) THEN <<>>
  ELSE (IF k > 1 THEN <<CharComma>> ELSE <<>>) \o groups[k]
       \o JoinGroups(groups, k + 1)

\* Equations "g1,...,gn" and "g1,...,gn->out" with n = 1 .. maxops groups of
\* up to maxlen labels and an output of up to maxout labels.
Equations(maxops, maxlen, maxout) ==
  UNION {UNION {{JoinGroups(groups, 1)}
                \cup {JoinGroups(groups, 1) \o <<CharDash, CharGt>> \o out :
                        out \in Groups(maxout)} :
                groups \in [1..n -> Groups(maxlen)]} : n \in 1..maxops}

\* The equations over the labels "i" and "j" only.
TwoLabelEquations(maxops, maxlen, maxout) ==
  {e \in Equations(maxops, maxlen, maxout) :
     \A p \in 1..Len(e) : e[p] # CharA + 10}

\* Every string of up to MaxEquationLen characters over "i", " ", ",", "-"
\* and ">".
RawEquations ==
  UNION {[1..n -> {CharA + 8, CharSpace, CharComma, CharDash, CharGt}] :
           n \in 0..MaxEquationLen}

(***************************************************************************)
(* Tensors held by handle.  A handle names a TensorImpl of the heap: its   *)
(* extents, its strides, the offset of its first entry and its storage;    *)
(* several TensorImpls may share a storage (views).  A handle is a pair    *)
(* <<owner, n>>: owner 0 for the operands of the callers, the number of    *)
(* the thread for the tensors created inside its call.                     *)
(***************************************************************************)
\* Calls run on NumThreads threads.
NumThreads == 2

Threads == 1..NumThreads

ContiguousStrides(sizes) == [k \in 1..Len(sizes) |-> Stride(sizes, k)]

\* A new tensor of the given extents in a storage of its own.
ContiguousImpl(sizes, storage) ==
  [sizes |-> sizes, strides |-> ContiguousStrides(sizes), offset |-> 0,
   storage |-> storage]

\* The entry of the TensorImpl m at the multi-index idx.
ImplAt(h, m, idx) ==
  h.data[m.storage]
    [m.offset + SumFrom([k \in 1..Len(idx) |-> idx[k] * m.strides[k]], 1) + 1]

\* The extents and entries (row-major) that the handle id shows.
View(h, id) ==
  MkTensor(h.impl[id].sizes, LAMBDA idx : ImplAt(h, h.impl[id], idx))

\* Tensor::diagonal(0, dim1, dim2) on the TensorImpl.
impl_diagonal(m, dim1, dim2) ==
  LET n == Len(m.sizes)
      rest == AscendingIn((0..(n - 1)) \ {dim1, dim2}, 0, n)
      len == IF m.sizes[dim1 + 1] < m.sizes[dim2 + 1]
             THEN m.sizes[dim1 + 1] ELSE m.sizes[dim2 + 1]
  IN [m EXCEPT
        !.sizes = [k \in 1..(n - 1) |->
                     IF k = n - 1 THEN len ELSE m.sizes[rest[k] + 1]],
        !.strides = [k \in 1..(n - 1) |->
                       IF k = n - 1
                       THEN m.strides[dim1 + 1] + m.strides[dim2 + 1]
                       ELSE m.strides[rest[k] + 1]]]

\* Tensor::unsqueeze(d) on the TensorImpl.
impl_unsqueeze(m, d) ==
  LET n == Len(m.sizes)
      w == IF d < 0 THEN d + n + 1 ELSE d
      stride == IF w < n THEN m.sizes[w + 1] * m.strides[w + 1] ELSE 1
  IN [m EXCEPT !.sizes = InsertAt(m.sizes, w + 1, 1),
               !.strides = InsertAt(m.strides, w + 1, stride)]

\* Tensor::squeeze(d) on the TensorImpl.
impl_squeeze(m, d) ==
  LET w == WrapDim(d, Len(m.sizes))
  IN IF m.sizes[w + 1] = 1
     THEN [m EXCEPT !.sizes = RemoveAt(m.sizes, w + 1),
                    !.strides = RemoveAt(m.strides, w + 1)]
     ELSE m

\* Tensor::permute(perm) on the TensorImpl.
impl_permute(m, perm) ==
  [m EXCEPT !.sizes = [k \in 1..Len(perm) |-> m.sizes[perm[k] + 1]],
            !.strides = [k \in 1..Len(perm) |-> m.strides[perm[k] + 1]]]

\* Tensor::transpose(d0, d1) on the TensorImpl.
impl_transpose(m, d0, d1) ==
  LET n == Len(m.sizes)
      a == WrapDim(d0, n)
      b == WrapDim(d1, n)
  IN impl_permute(m, [k \in 1..n |-> IF k - 1 = a THEN b
                                     ELSE IF k - 1 = b THEN a ELSE k - 1])

\* A new TensorImpl on an existing storage: what a view-producing operation
\* returns.
heap_view(h, id, m) == [h EXCEPT !.impl = (id :> m) @@ @]

\* A new tensor with the extents and entries of t, in a storage of its own.
heap_tensor(h, id, t) ==
  [impl |-> (id :> ContiguousImpl(t.sizes, id)) @@ h.impl,
   data |-> (id :> t.data) @@ h.data]

\* The heap without the tensors created by the call of thread t.
heap_release(h, t) ==
  [impl |-> [id \in {x \in DOMAIN h.impl : x[1] # t} |-> h.impl[id]],
   data |-> [id \in {x \in DOMAIN h.data : x[1] # t} |-> h.data[id]]]

\* The operands of the callers: a square matrix and a matrix with one more
\* column, shared by all the threads.
CallerTensors ==
  <<Operand(<<MaxExtent, MaxExtent>>, 1),
    Operand(<<MaxExtent, MaxExtent + 1>>, 2)>>

CallerHandles == {<<0, k>> : k \in 1..Len(CallerTensors)}

CallerHeap ==
  [impl |-> [id \in CallerHandles |->
               ContiguousImpl(CallerTensors[id[2]].sizes, id)],
   data |-> [id \in CallerHandles |-> CallerTensors[id[2]].data]]

(***************************************************************************)
(* einsum on handles: the loop that aligns the operands.                   *)
(***************************************************************************)
\* Faulty variant: the result of diagonal is not assigned to operand, so the
\* axis operations that follow act on the operand as it was passed in.
einsum_diagonal_handle_unassigned(operand, fresh) == operand

\* operand = operand.diagonal(0, j, dim): operand now names the new view.
einsum_diagonal_handle(operand, fresh) == fresh

\* operand = operand.diagonal(0, j, dim);
\* operand.unsqueeze_(dim).transpose_(dim, -1).squeeze_(-1);
heap_take_diagonal(st, owner, dim) ==
  LET fresh == <<owner, st.next>>
      target == einsum_diagonal_handle(st.operand, fresh)
      h1 == heap_view(st.h, fresh,
                      impl_diagonal(st.h.impl[st.operand], st.j, dim))
  IN [st EXCEPT
        !.h = [h1 EXCEPT !.impl[target] =
                 impl_squeeze(impl_transpose(impl_unsqueeze(@, dim),
                                             dim, 0 - 1), 0 - 1)],
        !.operand = target,
        !.next = @ + 1]

\* The loop over the characters of the operand's group.
RECURSIVE heap_align_chars(_, _, _, _, _)
heap_align_chars(labels, plan, owner, st, p) ==
  IF st.err # "" \/ p > Len(labels) THEN st
  ELSE LET c == labels[p]
       IN IF c = CharSpace
          THEN heap_align_chars(labels, plan, owner, st, p + 1)
          ELSE IF st.label_dim[c - CharA] # 0 - 1
          THEN LET dim == st.label_dim[c - CharA]
               IN IF st.h.impl[st.operand].sizes[st.j + 1]
                       # st.h.impl[st.operand].sizes[dim + 1]
                  THEN [st EXCEPT !.err = ErrDiagonalSize]
                  ELSE heap_align_chars(labels, plan, owner,
                         heap_take_diagonal(st, owner, dim), p + 1)
          ELSE heap_align_chars(labels, plan, owner,
                 [st EXCEPT
                    !.label_dim[c - CharA] = st.j,
                    !.perm_shape[plan.label_out_index[c - CharA] + 1] = st.j,
                    !.j = @ + 1],
                 p + 1)

\* Faulty variant: the axis is appended in place (unsqueeze_), on the
\* TensorImpl that operand names.
einsum_unsqueeze_last_inplace(h, operand, fresh) ==
  [h |-> [h EXCEPT !.impl[operand] = impl_unsqueeze(@, 0 - 1)],
   operand |-> operand]

\* operand = operand.unsqueeze(-1): a new view, which operand names.
einsum_unsqueeze_last(h, operand, fresh) ==
  [h |-> heap_view(h, fresh, impl_unsqueeze(h.impl[operand], 0 - 1)),
   operand |-> fresh]

\* One pass of the loop over perm_shape, for the unsqueezed operand r.
heap_fill_slot(st, k, r) ==
  [st EXCEPT !.h = r.h, !.operand = r.operand, !.next = @ + 1,
             !.perm_shape[k] = st.j, !.j = @ + 1]

\* The loop over perm_shape.
RECURSIVE heap_fill_missing(_, _, _)
heap_fill_missing(st, owner, k) ==
  IF st.err # "" \/ k > Len(st.perm_shape) THEN st
  ELSE heap_fill_missing(
         IF st.perm_shape[k] = 0 - 1
         THEN heap_fill_slot(st, k, einsum_unsqueeze_last(st.h, st.operand,
                                                          <<owner, st.next>>))
         ELSE st,
         owner, k + 1)

\* permuted_operands.push_back(operand.permute(perm_shape)).
heap_permute(st, owner) ==
  IF st.err # "" THEN st
  ELSE [st EXCEPT
          !.h = heap_view(st.h, <<owner, st.next>>,
                          impl_permute(st.h.impl[st.operand], st.perm_shape)),
          !.operand = <<owner, st.next>>,
          !.next = @ + 1]

\* One pass of the loop over the operands: Tensor operand = operands[i], the
\* loop over the characters, the loop over perm_shape and the permutation.
heap_align_operand(h, labels, handle, plan, owner, next) ==
  heap_permute(
    heap_fill_missing(
      heap_align_chars(labels, plan, owner,
        [err |-> "", h |-> h, operand |-> handle, next |-> next,
         perm_shape |-> [k \in 1..plan.out_index |-> 0 - 1],
         label_dim |-> [l \in 0..(total_labels - 1) |-> 0 - 1],
         j |-> 0],
        1),
      owner, 1),
    owner)

(***************************************************************************)
(* _trilinear on handles: what precedes the unrolled loops, and the final  *)
(* loop of squeeze_.                                                       *)
(***************************************************************************)
\* The check of unroll_dim, the four bitsets and the loop over the axes.
trilinear_prepare(i1_, i2_, i3_, expand1_, expand2_, expand3_, sumdim_, unroll_dim) ==
  LET total_dim == Dim(i1_) + Len(expand1_)
      biterr == LET e1 == dim_list_to_bitset_err(expand1_, total_dim)
                    e2 == dim_list_to_bitset_err(expand2_, total_dim)
                    e3 == dim_list_to_bitset_err(expand3_, total_dim)
                    e4 == dim_list_to_bitset_err(sumdim_, total_dim)
                IN IF e1 # "" THEN e1 ELSE IF e2 # "" THEN e2
                   ELSE IF e3 # "" THEN e3 ELSE e4
      expand1 == dim_list_to_bitset(expand1_, total_dim)
      expand2 == dim_list_to_bitset(expand2_, total_dim)
      expand3 == dim_list_to_bitset(expand3_, total_dim)
      sumdim == dim_list_to_bitset(sumdim_, total_dim)
  IN IF ~(unroll_dim >= 0 /\ unroll_dim < total_dim)
     THEN [err |-> ErrUnrollDim]
     ELSE IF biterr # "" THEN [err |-> biterr]
     ELSE trilinear_expand(expand1, expand2, expand3, sumdim, unroll_dim,
            total_dim,
            [err |-> "", i1 |-> i1_, i2 |-> i2_, i3 |-> i3_,
             expand1 |-> expand1, expand2 |-> expand2, expand3 |-> expand3,
             output_size |-> <<>>,
             sum_dims_12 |-> <<>>, sum_dims_23 |-> <<>>,
             unroll_size |-> 0 - 1],
            0)

\* for (i = output.dim()-1; i >= 0; i--) if (sumdim[i]) output.squeeze_(i),
\* on the TensorImpl of output.
RECURSIVE impl_squeeze_loop(_, _, _)
impl_squeeze_loop(m, sumdim, i) ==
  IF i < 0 THEN m
  ELSE impl_squeeze_loop(IF i \in sumdim THEN impl_squeeze(m, i) ELSE m,
                         sumdim, i - 1)

(***************************************************************************)
(* The state machine: a caller that makes one call at a time.  pc is       *)
(* "idle" between calls and "done" when a call has returned; call holds    *)
(* the arguments of the call and ret what it returned or raised.           *)
(***************************************************************************)
NoCall == [fn |-> "none"]

NoRet == Fail("none")

NoLocal == [err |-> "none"]

Init ==
  /\ pc = "idle" /\ call = NoCall /\ ret = NoRet
  /\ local = NoLocal /\ executed = <<>>
  /\ heap = CallerHeap
  /\ threads = [t \in Threads |->
                 [pc |-> "idle", call |-> NoCall, local |-> NoLocal,
                  ret |-> NoRet]]

EinsumDo(equation, operands) ==
  /\ call' = [fn |-> "einsum", equation |-> equation, operands |-> operands]
  /\ ret' = einsum(equation, operands)
  /\ pc' = "done"
  /\ UNCHANGED <<stepvars, heapvars>>

EinsumCall ==
  /\ pc = "idle"
  /\ \/ \E equation \in TwoLabelEquations(MaxOperands, MaxRank, MaxRank),
           operands \in WideOperandLists(MaxOperands, MaxRank) :
          EinsumDo(equation, operands)
     \/ \E equation \in Equations(MaxOperands, MaxRank, MaxRank),
           operands \in OperandLists(MaxOperands, MaxRank) :
          EinsumDo(equation, operands)
     \/ \E equation \in Equations(1, MaxRepeat, MaxRank),
           operands \in OperandLists(1, MaxRepeat) :
          EinsumDo(equation, operands)
     \/ \E equation \in RawEquations,
           operands \in OperandLists(MaxOperands, MaxRank) :
          EinsumDo(equation, operands)

Return ==
  /\ pc = "done"
  /\ pc' = "idle"
  /\ call' = NoCall
  /\ ret' = NoRet
  /\ local' = NoLocal
  /\ executed' = <<>>
  /\ UNCHANGED heapvars

\* tensordot on operands of up to MaxRepeat axes; the lists of axes hold
\* up to MaxPairs axis numbers, repeated and out-of-range ones included.
AxisLists == UNION {[1..n -> 0..(MaxRepeat - 1)] : n \in 0..MaxPairs}

TensordotDo(input1, input2, dims1, dims2) ==
  /\ call' = [fn |-> "tensordot", input1 |-> input1, input2 |-> input2,
              dims1 |-> dims1, dims2 |-> dims2]
  /\ ret' = tensordot(input1, input2, dims1, dims2)
  /\ pc' = "done"
  /\ UNCHANGED <<stepvars, heapvars>>

\* The lists of up to MaxPairs axis numbers of an operand of MaxRank axes.
WideAxisLists == UNION {[1..n -> 0..(MaxRank - 1)] : n \in 0..MaxPairs}

TensordotCall ==
  /\ pc = "idle"
  /\ \/ \E shape1 \in Shapes(MaxRepeat), shape2 \in Shapes(MaxRepeat),
           dims1 \in AxisLists, dims2 \in AxisLists :
          TensordotDo(Operand(shape1, 1), Operand(shape2, 2), dims1, dims2)
     \/ \E shape1 \in WideShapes(MaxRank), shape2 \in WideShapes(MaxRank),
           dims1 \in WideAxisLists, dims2 \in WideAxisLists :
          TensordotDo(Operand(shape1, 1), Operand(shape2, 2), dims1, dims2)

\* weight[o, i, j] = 1 when i = j, else 0.
IdentityWeight(sizes) ==
  MkTensor(sizes, LAMBDA idx : IF idx[2] = idx[3] THEN 1 ELSE 0)

\* bilinear on inputs of 1 .. MaxRepeat axes, a weight of three axes and a
\* bias that is undefined or has one axis.  unroll_dim ranges over the axes
\* of the _trilinear call.
BilinearCall ==
  /\ pc = "idle"
  /\ \E shape1 \in Shapes(MaxRepeat) \ {<<>>},
        shape2 \in Shapes(MaxRepeat) \ {<<>>},
        wshape \in [1..3 -> 1..MaxExtent],
        identity \in BOOLEAN,
        bshape \in {<<>>} \cup [1..1 -> 1..MaxExtent],
        unroll_dim \in 0..3 :
       LET weight == IF identity THEN IdentityWeight(wshape)
                     ELSE Operand(wshape, 3)
           bias == IF bshape = <<>> THEN Undefined ELSE Operand(bshape, 4)
       IN /\ call' = [fn |-> "bilinear",
                      input1 |-> Operand(shape1, 1),
                      input2 |-> Operand(shape2, 2),
                      weight |-> weight, bias |-> bias,
                      unroll_dim |-> unroll_dim]
          /\ ret' = bilinear(Operand(shape1, 1), Operand(shape2, 2), weight,
                             bias, unroll_dim)
  /\ pc' = "done"
  /\ UNCHANGED <<stepvars, heapvars>>

\* The shape of an operand of _trilinear: the axes of extents that are not
\* in its expand list.
TrilinearShape(extents, expand) ==
  FilterFrom(extents, LAMBDA k : (k - 1) \notin expand, 1)

\* _trilinear on total_dim axes of the given extents: each operand lacks
\* the axes of its expand list, and has the given extent on the others.
\* unroll_dim ranges over the axes and the two values next to them.
TrilinearCall ==
  /\ pc = "idle"
  /\ \E total_dim \in 1..MaxTrilinearDim :
       \E extents \in [1..total_dim -> 1..MaxExtent],
          expand1 \in SUBSET (0..(total_dim - 1)),
          expand2 \in SUBSET (0..(total_dim - 1)),
          expand3 \in SUBSET (0..(total_dim - 1)),
          sumdim \in SUBSET (0..(total_dim - 1)),
          unroll_dim \in (0 - 1)..total_dim :
         LET i1 == Operand(TrilinearShape(extents, expand1), 1)
             i2 == Operand(TrilinearShape(extents, expand2), 2)
             i3 == Operand(TrilinearShape(extents, expand3), 3)
         IN /\ call' = [fn |-> "_trilinear",
                        i1 |-> i1, i2 |-> i2, i3 |-> i3,
                        expand1 |-> SortedSeq(expand1),
                        expand2 |-> SortedSeq(expand2),
                        expand3 |-> SortedSeq(expand3),
                        sumdim |-> SortedSeq(sumdim),
                        unroll_dim |-> unroll_dim]
            /\ ret' = _trilinear(i1, i2, i3, SortedSeq(expand1),
                                 SortedSeq(expand2), SortedSeq(expand3),
                                 SortedSeq(sumdim), unroll_dim)
  /\ pc' = "done"
  /\ UNCHANGED <<stepvars, heapvars>>

\* _trilinear on arbitrary arguments: operands of up to one axis whose
\* ranks need not fit the lists of axes, and lists of axes that may repeat
\* an axis or name one that does not exist.
TrilinearAxisLists(maxlen) ==
  UNION {[1..n -> 0..MaxTrilinearDim] : n \in 0..maxlen}

TrilinearAnyCall ==
  /\ pc = "idle"
  /\ \E shape1 \in Shapes(1), shape2 \in Shapes(1), shape3 \in Shapes(1),
        expand1 \in TrilinearAxisLists(MaxTrilinearDim),
        expand2 \in TrilinearAxisLists(1),
        expand3 \in TrilinearAxisLists(1),
        sumdim \in TrilinearAxisLists(1),
        unroll_dim \in (0 - 1)..(MaxTrilinearDim + 1) :
       /\ call' = [fn |-> "_trilinear",
                   i1 |-> Operand(shape1, 1), i2 |-> Operand(shape2, 2),
                   i3 |-> Operand(shape3, 3),
                   expand1 |-> expand1, expand2 |-> expand2,
                   expand3 |-> expand3, sumdim |-> sumdim,
                   unroll_dim |-> unroll_dim]
       /\ ret' = _trilinear(Operand(shape1, 1), Operand(shape2, 2),
                            Operand(shape3, 3), expand1, expand2, expand3,
                            sumdim, unroll_dim)
  /\ pc' = "done"
  /\ UNCHANGED <<stepvars, heapvars>>

(***************************************************************************)
(* tensordot statement by statement: the length check, one pass of the     *)
(* loop over the pairs at a time, the two bitsets, then the permutations   *)
(* and the matrix product.  executed lists the data-computing primitives   *)
(* (sum, mm) the call has executed.                                        *)
(***************************************************************************)
StepShapes(maxrank) ==
  UNION {[1..n -> 1..(MaxExtent + 1)] : n \in 0..maxrank}

\* TORCH_CHECK(dims1.size() == dims2.size(), ...) and the initialisation
\* of t1, t2 and csize.
TensordotBegin ==
  /\ pc = "idle"
  /\ \E shape1 \in StepShapes(MaxRank), shape2 \in StepShapes(MaxRank),
        dims1 \in WideAxisLists, dims2 \in WideAxisLists :
       /\ call' = [fn |-> "tensordot",
                   input1 |-> Operand(shape1, 1), input2 |-> Operand(shape2, 2),
                   dims1 |-> dims1, dims2 |-> dims2]
       /\ IF Len(dims1) # Len(dims2)
          THEN /\ pc' = "done"
               /\ ret' = Fail(ErrTensordotLen)
               /\ local' = NoLocal
          ELSE /\ pc' = "tensordot_pairs"
               /\ ret' = NoRet
               /\ local' = [st |-> tensordot_locals(Operand(shape1, 1),
                                                    Operand(shape2, 2)),
                            i |-> 0]
  /\ executed' = <<>>
  /\ UNCHANGED heapvars

\* One pass of the loop over the pairs.
TensordotPair ==
  /\ pc = "tensordot_pairs"
  /\ local.i < Len(call.dims1)
  /\ LET st == tensordot_pair(call.input1, call.input2, call.dims1,
                              call.dims2, local.st, local.i)
     IN /\ local' = [st |-> st, i |-> local.i + 1]
        /\ executed' =
             IF tensordot_pair_sums(call.input1, call.input2, call.dims1,
                                    call.dims2, local.i)
             THEN Append(executed, "sum") ELSE executed
        /\ IF st.err # ""
           THEN pc' = "done" /\ ret' = Fail(st.err)
           ELSE UNCHANGED <<pc, ret>>
  /\ UNCHANGED <<call, heapvars>>

\* The two calls of dim_list_to_bitset after the loop.
TensordotBitsets ==
  /\ pc = "tensordot_pairs"
  /\ local.i = Len(call.dims1)
  /\ LET e == tensordot_bitsets_err(call.input1, call.input2, call.dims1,
                                    call.dims2)
     IN IF e # ""
        THEN pc' = "done" /\ ret' = Fail(e)
        ELSE pc' = "tensordot_mm" /\ UNCHANGED ret
  /\ UNCHANGED <<call, local, executed, heapvars>>

\* The permutations, the reshapes, at::mm and the return.
TensordotMm ==
  /\ pc = "tensordot_mm"
  /\ ret' = tensordot_mm(local.st, call.input1, call.input2, call.dims1,
                         call.dims2)
  /\ executed' = Append(executed, "mm")
  /\ pc' = "done"
  /\ UNCHANGED <<call, local, heapvars>>

(***************************************************************************)
(* Calls that run concurrently: every thread makes calls of einsum and of  *)
(* _trilinear on the operands of the callers, which all threads share; a   *)
(* step of a thread is a part of its call.                                 *)
(***************************************************************************)
\* "ii", "ii->i", "ij->ji", "ij,ij" and "ij,jk->ik".
ThreadEquations ==
  {<<CharA + 8, CharA + 8>>,
   <<CharA + 8, CharA + 8, CharDash, CharGt, CharA + 8>>,
   <<CharA + 8, CharA + 9, CharDash, CharGt, CharA + 9, CharA + 8>>,
   <<CharA + 8, CharA + 9, CharComma, CharA + 8, CharA + 9>>,
   <<CharA + 8, CharA + 9, CharComma, CharA + 9, CharA + 10, CharDash, CharGt,
     CharA + 8, CharA + 10>>}

ThreadOperandLists ==
  {<<<<0, 1>>>>, <<<<0, 2>>>>, <<<<0, 1>>, <<0, 1>>>>, <<<<0, 1>>, <<0, 2>>>>}

\* The state of the thread after the plan was made: the call has failed, or
\* it goes on to align its operands.
thread_after_plan(c, plan) ==
  IF plan.err # ""
  THEN [pc |-> "done", call |-> c, local |-> NoLocal, ret |-> Fail(plan.err)]
  ELSE [pc |-> "einsum_align", call |-> c,
        local |-> [plan |-> plan, i |-> 0, permuted |-> <<>>, next |-> 1],
        ret |-> NoRet]

\* einsum up to the loop that aligns the operands: the equation is parsed
\* and the plan is made from the extents of the operands.
ThreadEinsumCall(t) ==
  /\ threads[t].pc = "idle"
  /\ \E equation \in ThreadEquations, handles \in ThreadOperandLists :
       threads' = [threads EXCEPT ![t] =
         thread_after_plan(
           [fn |-> "einsum", equation |-> equation, handles |-> handles],
           einsum_plan(equation,
                       [k \in 1..Len(handles) |-> View(heap, handles[k])]))]
  /\ UNCHANGED <<heap, callervars>>

\* The state of the thread and the heap after one operand was aligned.
thread_after_align(t, st) ==
  /\ heap' = st.h
  /\ threads' = [threads EXCEPT ![t] =
       IF st.err # ""
       THEN [@ EXCEPT !.pc = "done", !.ret = Fail(st.err)]
       ELSE [@ EXCEPT !.local.i = @ + 1,
                      !.local.permuted = Append(@, st.operand),
                      !.local.next = st.next]]

\* One pass of the loop that aligns the operands.
ThreadEinsumAlign(t) ==
  /\ threads[t].pc = "einsum_align"
  /\ threads[t].local.i < Len(threads[t].call.handles)
  /\ thread_after_align(t,
       heap_align_operand(heap,
         einsum_operand_labels(threads[t].call.equation)
           [threads[t].local.i + 1],
         threads[t].call.handles[threads[t].local.i + 1],
         threads[t].local.plan, t, threads[t].local.next))
  /\ UNCHANGED callervars

\* The product of the aligned operands, the sum and the return.
ThreadEinsumCompute(t) ==
  /\ threads[t].pc = "einsum_align"
  /\ threads[t].local.i = Len(threads[t].call.handles)
  /\ threads' = [threads EXCEPT
       ![t].pc = "done",
       ![t].ret =
         einsum_sum(threads[t].local.plan,
           einsum_mul_loop(
             [k \in 1..Len(threads[t].local.permuted) |->
                Ok(View(heap, threads[t].local.permuted[k]))],
             Ok(View(heap, threads[t].local.permuted[1])), 1))]
  /\ UNCHANGED <<heap, callervars>>

\* The state of the thread and the heap after what precedes the unrolled
\* loops: the call has failed, or output = at::zeros(output_size) is made.
thread_after_prepare(t, c, st) ==
  IF st.err # ""
  THEN /\ threads' = [threads EXCEPT ![t] =
            [pc |-> "done", call |-> c, local |-> NoLocal,
             ret |-> Fail(st.err)]]
       /\ UNCHANGED heap
  ELSE /\ threads' = [threads EXCEPT ![t] =
            [pc |-> "trilinear_unroll", call |-> c,
             local |-> [st |-> st, output |-> <<t, 1>>, k |-> 0],
             ret |-> NoRet]]
       /\ heap' = heap_tensor(heap, <<t, 1>>, Zeros(st.output_size))

\* _trilinear up to the unrolled loops, with empty lists of axes to insert.
ThreadTrilinearCall(t) ==
  /\ threads[t].pc = "idle"
  /\ \E i2 \in CallerHandles, sumdim \in {<<>>, <<1>>},
        unroll_dim \in (0 - 1)..1 :
       thread_after_prepare(t,
         [fn |-> "_trilinear", i1 |-> <<0, 1>>, i2 |-> i2, i3 |-> <<0, 1>>,
          sumdim |-> sumdim, unroll_dim |-> unroll_dim],
         trilinear_prepare(View(heap, <<0, 1>>), View(heap, i2),
                           View(heap, <<0, 1>>), <<>>, <<>>, <<>>, sumdim,
                           unroll_dim))
  /\ UNCHANGED callervars

\* The state of the thread and the heap after one pass of the unrolled
\* loop: add_ has written the entries r.val into the storage of output.
thread_after_step(t, r) ==
  IF r.err # ""
  THEN /\ threads' = [threads EXCEPT ![t].pc = "done", ![t].ret = r]
       /\ UNCHANGED heap
  ELSE /\ threads' = [threads EXCEPT ![t].local.k = @ + 1]
       /\ heap' = [heap EXCEPT
            !.data[heap.impl[threads[t].local.output].storage] = r.val.data]

\* One pass of the unrolled loop: the two pairwise contractions and add_.
ThreadTrilinearStep(t) ==
  /\ threads[t].pc = "trilinear_unroll"
  /\ threads[t].local.k < threads[t].local.st.unroll_size
  /\ thread_after_step(t,
       trilinear_step(threads[t].local.st,
                      View(heap, threads[t].local.output),
                      Range(threads[t].call.sumdim),
                      threads[t].call.unroll_dim, threads[t].local.k))
  /\ UNCHANGED callervars

\* The heap after the loop of squeeze_ on output.
heap_squeeze_output(h, output, sumdim) ==
  [h EXCEPT !.impl[output] =
     impl_squeeze_loop(@, sumdim, Len(h.impl[output].sizes) - 1)]

\* The loop of squeeze_ and the return.
ThreadTrilinearFinish(t) ==
  /\ threads[t].pc = "trilinear_unroll"
  /\ threads[t].local.k >= threads[t].local.st.unroll_size
  /\ heap' = heap_squeeze_output(heap, threads[t].local.output,
                                 Range(threads[t].call.sumdim))
  /\ threads' = [threads EXCEPT
       ![t].pc = "done",
       ![t].ret = Ok(View(heap', threads[t].local.output))]
  /\ UNCHANGED callervars

\* The caller has the result; the tensors the call created are released.
ThreadReturn(t) ==
  /\ threads[t].pc = "done"
  /\ threads' = [threads EXCEPT ![t] =
       [pc |-> "idle", call |-> NoCall, local |-> NoLocal, ret |-> NoRet]]
  /\ heap' = heap_release(heap, t)
  /\ UNCHANGED callervars

(***************************************************************************)
(* sumproduct_pair called on its own.  The operands have up to             *)
(* MaxRank + 1 axes of extent 1 .. MaxExtent, or up to MaxRank axes of     *)
(* extent 1 .. MaxExtent + 1 (two such extents can differ without either   *)
(* being 1); their ranks need not agree.  sum_dims_ lists distinct axes in *)
(* any order and may name an axis the operands do not have.                *)
(***************************************************************************)
PairAxisLists(maxrank) ==
  {s \in UNION {[1..n -> 0..(maxrank - 1)] : n \in 0..maxrank} :
     \A k, m \in 1..Len(s) : k # m => s[k] # s[m]}

SumproductPairDo(left, right, sum_dims, keepdim) ==
  /\ call' = [fn |-> "sumproduct_pair", left |-> left, right |-> right,
              sum_dims |-> sum_dims, keepdim |-> keepdim]
  /\ ret' = sumproduct_pair(left, right, sum_dims, keepdim)

SumproductPairCall ==
  /\ pc = "idle"
  /\ \/ \E shape1 \in StepShapes(MaxRank), shape2 \in StepShapes(MaxRank),
           sum_dims \in PairAxisLists(MaxRank), keepdim \in BOOLEAN :
          SumproductPairDo(Operand(shape1, 1), Operand(shape2, 2),
                           sum_dims, keepdim)
     \/ \E shape1 \in Shapes(MaxRank + 1), shape2 \in Shapes(MaxRank + 1),
           sum_dims \in PairAxisLists(MaxRank + 1), keepdim \in BOOLEAN :
          SumproductPairDo(Operand(shape1, 1), Operand(shape2, 2),
                           sum_dims, keepdim)
  /\ pc' = "done"
  /\ UNCHANGED <<stepvars, heapvars>>

NextEinsum == EinsumCall \/ Return

SpecEinsum == Init /\ [][NextEinsum]_vars

NextTensordot == TensordotCall \/ Return

SpecTensordot == Init /\ [][NextTensordot]_vars

NextBilinear == BilinearCall \/ Return

SpecBilinear == Init /\ [][NextBilinear]_vars

NextTrilinear == TrilinearCall \/ Return

SpecTrilinear == Init /\ [][NextTrilinear]_vars

NextTrilinearAny == TrilinearAnyCall \/ Return

NextTensordotSteps ==
  TensordotBegin \/ TensordotPair \/ TensordotBitsets \/ TensordotMm \/ Return

SpecTensordotSteps == Init /\ [][NextTensordotSteps]_vars

NextThreads ==
  \E t \in Threads :
    \/ ThreadEinsumCall(t) \/ ThreadEinsumAlign(t) \/ ThreadEinsumCompute(t)
    \/ ThreadTrilinearCall(t) \/ ThreadTrilinearStep(t)
    \/ ThreadTrilinearFinish(t) \/ ThreadReturn(t)

SpecThreads == Init /\ [][NextThreads]_vars

SpecTrilinearAny == Init /\ [][NextTrilinearAny]_vars

NextSumproductPair == SumproductPairCall \/ Return

SpecSumproductPair == Init /\ [][NextSumproductPair]_vars

Next ==
  \/ EinsumCall \/ TensordotCall \/ BilinearCall
  \/ TrilinearCall \/ TrilinearAnyCall \/ SumproductPairCall
  \/ TensordotBegin \/ TensordotPair \/ TensordotBitsets \/ TensordotMm
  \/ NextThreads
  \/ Return

Spec == Init /\ [][Next]_vars

(***************************************************************************)
(* Reference semantics of an Einstein summation, stated on the text of the *)
(* equation and the entries of the operands.                               *)
(***************************************************************************)
\* The sum of the values of the function f over the set S.
RECURSIVE SumOver(_, _)
SumOver(S, f) ==
  IF S = {} THEN 0
  ELSE LET x == CHOOSE y \in S : TRUE IN f[x] + SumOver(S \ {x}, f)

NoSpaces(s) == SelectSeq(s, LAMBDA c : c # CharSpace)

\* 1-based position of the "-" of the first "->", 0 when there is none.
RefArrow(equation) ==
  LET A == {p \in 1..(Len(equation) - 1) :
              equation[p] = CharDash /\ equation[p + 1] = CharGt}
  IN IF A = {} THEN 0 ELSE CHOOSE p \in A : \A q \in A : p <= q

RefHasOutput(equation) == RefArrow(equation) # 0

RefLhs(equation) ==
  IF RefHasOutput(equation)
  THEN SubSeq(equation, 1, RefArrow(equation) - 1) ELSE equation

RefCommas(equation) ==
  SortedSeq({p \in 1..Len(RefLhs(equation)) :
               RefLhs(equation)[p] = CharComma})

RefNumGroups(equation) == Len(RefCommas(equation)) + 1

\* The labels of the k-th comma-separated group, spaces dropped.
RefGroup(equation, k) ==
  LET cs == RefCommas(equation)
      from == IF k = 1 THEN 1 ELSE cs[k - 1] + 1
      to == IF k = Len(cs) + 1 THEN Len(RefLhs(equation)) ELSE cs[k] - 1
  IN NoSpaces(SubSeq(RefLhs(equation), from, to))

RefGroups(equation) ==
  [k \in 1..RefNumGroups(equation) |-> RefGroup(equation, k)]

\* Total number of occurrences of label l in the operand groups.
RefCount(equation, l) ==
  LET gs == RefGroups(equation)
  IN Cardinality({<<k, a>> \in (1..Len(gs)) \X (1..(MaxRepeat + MaxRank + MaxEquationLen)) :
                    a <= Len(gs[k]) /\ gs[k][a] = l})

RefInputLabels(equation) ==
  UNION {Range(RefGroup(equation, k)) : k \in 1..RefNumGroups(equation)}

\* The output labels: those written after "->", else the labels occurring
\* exactly once, in ascending order.
RefOutput(equation) ==
  IF RefHasOutput(equation)
  THEN NoSpaces(SubSeq(equation, RefArrow(equation) + 2, Len(equation)))
  ELSE SortedSeq({l \in RefInputLabels(equation) :
                    RefCount(equation, l) = 1})

\* The extent of label l: the largest extent of an axis that carries it.
RefExtent(groups, operands, l) ==
  LET E == {operands[k].sizes[a] : <<k, a>> \in
              {<<k, a>> \in (1..Len(groups)) \X (1..(MaxRepeat + MaxRank)) :
                 a <= Len(groups[k]) /\ groups[k][a] = l}}
  IN CHOOSE e \in E : \A f \in E : f <= e

\* The result with axes out: each entry is the sum, over the indices of
\* the labels not in out, of the product of the operands' entries.
EinsumRef(groups, out, operands) ==
  LET inputs == UNION {Range(groups[k]) : k \in 1..Len(groups)}
      summed == inputs \ Range(out)
      ext(l) == RefExtent(groups, operands, l)
      assignments ==
        {f \in [summed -> 0..(MaxExtent + 1)] : \A l \in summed : f[l] < ext(l)}
      value(l, idx, f) ==
        IF l \in summed THEN f[l]
        ELSE idx[CHOOSE k \in 1..Len(out) : out[k] = l]
      entry(k, idx, f) ==
        At(operands[k],
           [a \in 1..Len(groups[k]) |->
              IF operands[k].sizes[a] = 1 THEN 0
              ELSE value(groups[k][a], idx, f)])
      term(idx, f) == ProdFrom([k \in 1..Len(groups) |-> entry(k, idx, f)], 1)
  IN MkTensor([k \in 1..Len(out) |-> ext(out[k])],
              LAMBDA idx : SumOver(assignments,
                                   [f \in assignments |-> term(idx, f)]))

EinsumReturned == pc = "done" /\ call.fn = "einsum"

EinsumSucceeded == EinsumReturned /\ ret.err = ""

\* The equation "ij,jk->ik".
MatmulEquation ==
  <<CharA + 8, CharA + 9, CharComma, CharA + 9, CharA + 10, CharDash, CharGt,
    CharA + 8, CharA + 10>>

\* C1: a successful einsum returns the array whose axes are the output
\* labels in output order and whose entries are the sums, over the labels
\* that are not output, of the products of the operands' entries; for
\* "ij,jk->ik" on an [n, m] and an [m, p] matrix that is their matrix
\* product.
C1_EinsumComputesContraction ==
  EinsumSucceeded =>
    /\ ret.val = EinsumRef(RefGroups(call.equation), RefOutput(call.equation),
                           call.operands)
    /\ (call.equation = MatmulEquation
        /\ Size(call.operands[1], 1) = Size(call.operands[2], 0)) =>
         ret.val = Mm(call.operands[1], call.operands[2])

\* A matrix product of two 2 x 2 matrices was computed by "ij,jk->ik".
C1_Witness ==
  /\ EinsumSucceeded
  /\ call.equation = MatmulEquation
  /\ call.operands[1].sizes = <<2, 2>>
  /\ call.operands[2].sizes = <<2, 2>>
  /\ ret.val.sizes = <<2, 2>>

\* The labels of the group in first-occurrence order, repeats dropped.
RECURSIVE FirstOccurrences(_, _)
FirstOccurrences(group, k) ==
  IF k > Len(group) THEN <<>>
  ELSE (IF \E m \in 1..(k - 1) : group[m] = group[k] THEN <<>>
        ELSE <<group[k]>>) \o FirstOccurrences(group, k + 1)

\* The operand with one axis per distinct label of its group, at the place
\* of the label's first occurrence: the entry at an index is the operand's
\* entry where every axis carrying a label has that label's index.
DiagonalRef(group, operand) ==
  LET distinct == FirstOccurrences(group, 1)
      first(l) == CHOOSE a \in 1..Len(group) :
                    group[a] = l /\ \A b \in 1..(a - 1) : group[b] # l
      slot(l) == CHOOSE k \in 1..Len(distinct) : distinct[k] = l
  IN MkTensor([k \in 1..Len(distinct) |-> operand.sizes[first(distinct[k])]],
              LAMBDA idx : At(operand, [a \in 1..Len(group) |->
                                          idx[slot(group[a])]]))

\* The equations "ii->i" and "ii->".
DiagEquation == <<CharA + 8, CharA + 8, CharDash, CharGt, CharA + 8>>

TraceEquation == <<CharA + 8, CharA + 8, CharDash, CharGt>>

\* C2: in a successful einsum, the axes of an operand that carry one label
\* are replaced by their diagonal, at the place of the label's first
\* occurrence, for two and for more repeats; "ii->i" returns the diagonal of
\* a square matrix and "ii->" its trace.
C2_RepeatedLabelsTakeDiagonal ==
  EinsumSucceeded =>
    /\ \A k \in 1..Len(call.operands) :
         einsum_diagonals(einsum_operand_labels(call.equation)[k],
                          call.operands[k],
                          einsum_plan(call.equation, call.operands)).operand
           = DiagonalRef(RefGroup(call.equation, k), call.operands[k])
    /\ call.equation = DiagEquation =>
         ret.val = MkTensor(<<Size(call.operands[1], 0)>>,
                            LAMBDA idx : At(call.operands[1],
                                            <<idx[1], idx[1]>>))
    /\ call.equation = TraceEquation =>
         ret.val = MkTensor(<<>>,
                     LAMBDA idx :
                       SumFrom([m \in 1..Size(call.operands[1], 0) |->
                                  At(call.operands[1], <<m - 1, m - 1>>)], 1))

\* "iji->ij" succeeded on a 2 x 2 x 2 operand: the diagonal of the axes 0 and
\* 2 stands at axis 0.
C2_Witness ==
  /\ EinsumSucceeded
  /\ call.equation = <<CharA + 8, CharA + 9, CharA + 8, CharDash, CharGt,
                       CharA + 8, CharA + 9>>
  /\ call.operands[1].sizes = <<2, 2, 2>>
  /\ ret.val = MkTensor(<<2, 2>>,
                        LAMBDA idx : At(call.operands[1],
                                        <<idx[1], idx[2], idx[1]>>))

\* C3: without "->" the output labels are the labels that occur exactly once
\* in all groups together, in ascending order, every other label is summed
\* out, and the call returns what the call with that output written out
\* returns.
C3_ImplicitOutputIsFreeLabelsAscending ==
  (EinsumSucceeded /\ ~RefHasOutput(call.equation)) =>
    LET plan == einsum_plan(call.equation, call.operands)
        free == SortedSeq({l \in RefInputLabels(call.equation) :
                             RefCount(call.equation, l) = 1})
    IN /\ SubSeq(plan.permuted_labels, 1, plan.out_size)
            = [k \in 1..Len(free) |-> free[k] - CharA]
       /\ \A l \in RefInputLabels(call.equation) :
            RefCount(call.equation, l) >= 2 =>
              plan.label_out_index[l - CharA] >= plan.out_size
       /\ Dim(ret.val) = Len(free)
       /\ ret = einsum(call.equation \o <<CharDash, CharGt>> \o free,
                       call.operands)

\* "kj,ji" succeeded on two 2 x 2 matrices and returned the result of
\* "kj,ji->ik".
C3_Witness ==
  /\ EinsumSucceeded
  /\ call.equation = <<CharA + 10, CharA + 9, CharComma, CharA + 9, CharA + 8>>
  /\ call.operands[1].sizes = <<2, 2>>
  /\ call.operands[2].sizes = <<2, 2>>
  /\ ret.val = Permute(Mm(call.operands[1], call.operands[2]), <<1, 0>>)

\* The equation with the labels of group k reordered by perm (a 0-based
\* permutation of the group's positions); spaces are dropped.
PermutedEquation(equation, k, perm) ==
  LET gs == RefGroups(equation)
      g == [a \in 1..Len(gs[k]) |-> gs[k][perm[a] + 1]]
  IN JoinGroups([gs EXCEPT ![k] = g], 1)
     \o (IF RefHasOutput(equation)
         THEN SubSeq(equation, RefArrow(equation), Len(equation))
         ELSE <<>>)

AxisPermutations(n) ==
  {p \in [1..n -> 0..(n - 1)] : IsPermutation(p, n)}

\* C7: reordering the labels of one operand's group and the axes of that
\* operand by the same permutation does not change the result of a
\* successful einsum, with and without "->".
C7_PermutedOperandSameResult ==
  EinsumSucceeded =>
    \A k \in 1..Len(call.operands) :
      \A perm \in AxisPermutations(Dim(call.operands[k])) :
        einsum(PermutedEquation(call.equation, k, perm),
               [call.operands EXCEPT ![k] = Permute(call.operands[k], perm)])
          = ret

\* "ij,jk" succeeded on a 2 x 1 and a 1 x 2 operand, whose transposes have
\* another shape.
C7_Witness ==
  /\ EinsumSucceeded
  /\ call.equation = <<CharA + 8, CharA + 9, CharComma, CharA + 9, CharA + 10>>
  /\ call.operands[1].sizes = <<2, 1>>
  /\ call.operands[2].sizes = <<1, 2>>
  /\ ret.val.sizes = <<2, 2>>

\* C9 (as amended): with at least one operand, einsum raises the
\* operand-count error whenever the number of comma-separated groups left of
\* "->" (commas plus one, empty groups included) is not the number of
\* operands; with no operand it raises the no-operand error.
C9_OperandCountMismatch ==
  /\ (EinsumReturned /\ call.operands # <<>>
      /\ RefNumGroups(call.equation) # Len(call.operands)) =>
       ret.err = ErrOperandCount
  /\ (EinsumReturned /\ call.operands = <<>>) => ret.err = ErrNoOperands

\* "i," (two groups, the second empty) with one operand raised the
\* operand-count error.
C9_Witness ==
  /\ EinsumReturned
  /\ call.equation = <<CharA + 8, CharComma>>
  /\ Len(call.operands) = 1
  /\ ret.err = ErrOperandCount

\* C9 (as claimed): the operand-count error is raised whenever the number
\* of groups is not the number of operands.
C9_Original ==
  (EinsumReturned /\ RefNumGroups(call.equation) # Len(call.operands)) =>
    ret.err = ErrOperandCount

\* Every character left of "->" is a label, a space or a comma.
LhsWellFormed(equation) ==
  \A p \in 1..Len(RefLhs(equation)) :
    \/ RefLhs(equation)[p] \in {CharSpace, CharComma}
    \/ RefLhs(equation)[p] >= CharA /\ RefLhs(equation)[p] <= CharZ

\* C10 (as claimed): when the groups are as many as the operands and hold
\* only labels and spaces, einsum raises the rank-mismatch error whenever a
\* group has fewer or more labels than its operand has axes.
C10_RankMismatchError ==
  (EinsumReturned /\ call.operands # <<>>
   /\ RefNumGroups(call.equation) = Len(call.operands)
   /\ LhsWellFormed(call.equation)
   /\ \E k \in 1..Len(call.operands) :
        Len(RefGroup(call.equation, k)) # Dim(call.operands[k])) =>
    ret.err = ErrRankMismatch

(***************************************************************************)
(* Reference semantics of tensordot.                                       *)
(***************************************************************************)
TensordotReturned == pc = "done" /\ call.fn = "tensordot"

\* The lists pair distinct axes of the operands, and paired extents are
\* equal or one of them is 1.
TensordotValid ==
  /\ TensordotReturned
  /\ Len(call.dims1) = Len(call.dims2)
  /\ \A k \in 1..Len(call.dims1) :
       /\ call.dims1[k] < Dim(call.input1)
       /\ call.dims2[k] < Dim(call.input2)
  /\ \A k, m \in 1..Len(call.dims1) :
       k # m => call.dims1[k] # call.dims1[m] /\ call.dims2[k] # call.dims2[m]
  /\ \A k \in 1..Len(call.dims1) :
       LET s1 == Size(call.input1, call.dims1[k])
           s2 == Size(call.input2, call.dims2[k])
       IN s1 = s2 \/ s1 = 1 \/ s2 = 1

\* The free axes of a, ascending, then the free axes of b, ascending; the
\* entry at an index is the sum over the indices c of the pairs of the
\* product of the entries of a and b (an axis of extent 1 is read at 0).
TensordotRef(a, b, dims1, dims2) ==
  LET free1 == SortedSeq((0..(Dim(a) - 1)) \ Range(dims1))
      free2 == SortedSeq((0..(Dim(b) - 1)) \ Range(dims2))
      n == Len(dims1)
      ext(k) == IF Size(a, dims1[k]) > Size(b, dims2[k])
                THEN Size(a, dims1[k]) ELSE Size(b, dims2[k])
      cs == {c \in [1..n -> 0..(MaxExtent + 1)] : \A k \in 1..n : c[k] < ext(k)}
      pick(t, v) == [d \in 1..Dim(t) |-> IF t.sizes[d] = 1 THEN 0 ELSE v[d]]
      idx1(idx, c) ==
        [d \in 1..Dim(a) |->
           IF d - 1 \in Range(dims1)
           THEN c[CHOOSE k \in 1..n : dims1[k] = d - 1]
           ELSE idx[CHOOSE k \in 1..Len(free1) : free1[k] = d - 1]]
      idx2(idx, c) ==
        [d \in 1..Dim(b) |->
           IF d - 1 \in Range(dims2)
           THEN c[CHOOSE k \in 1..n : dims2[k] = d - 1]
           ELSE idx[Len(free1) + CHOOSE k \in 1..Len(free2) : free2[k] = d - 1]]
  IN MkTensor([k \in 1..Len(free1) |-> Size(a, free1[k])]
              \o [k \in 1..Len(free2) |-> Size(b, free2[k])],
              LAMBDA idx :
                SumOver(cs, [c \in cs |->
                               At(a, pick(a, idx1(idx, c)))
                               * At(b, pick(b, idx2(idx, c)))]))

\* C4: for equal-length lists of distinct axes, tensordot returns the array
\* whose axes are the free axes of the first operand, then those of the
\* second, each in their original order, and whose entries are the sums over
\* the paired axes of the products of the entries; with dims1 = [1] and
\* dims2 = [0] on an [n, m] and an [m, p] matrix that is the matrix product.
C4_TensordotComputesContraction ==
  TensordotValid =>
    /\ ret.err = ""
    /\ ret.val = TensordotRef(call.input1, call.input2, call.dims1, call.dims2)
    /\ (call.dims1 = <<1>> /\ call.dims2 = <<0>>
        /\ Dim(call.input1) = 2 /\ Dim(call.input2) = 2
        /\ Size(call.input1, 1) = Size(call.input2, 0)) =>
         ret.val = Mm(call.input1, call.input2)

\* Axis 1 of a 2 x 2 x 2 operand was contracted with axis 0 of a 2 x 2
\* operand: the result has the axes 0 and 2 of the first, then axis 1 of
\* the second.
C4_Witness ==
  /\ TensordotValid
  /\ call.input1.sizes = <<2, 2, 2>>
  /\ call.input2.sizes = <<2, 2>>
  /\ call.dims1 = <<1>>
  /\ call.dims2 = <<0>>
  /\ ret.val.sizes = <<2, 2, 2>>

\* The axes of the first (second) operand paired with an axis of extent 1
\* of the other operand.
BroadcastDims1 ==
  {call.dims1[k] : k \in {k \in 1..Len(call.dims1) :
                            Size(call.input2, call.dims2[k]) = 1}}

BroadcastDims2 ==
  {call.dims2[k] : k \in {k \in 1..Len(call.dims2) :
                            Size(call.input1, call.dims1[k]) = 1}}

HasBroadcastPair ==
  \E k \in 1..Len(call.dims1) :
    \/ Size(call.input1, call.dims1[k]) = 1
    \/ Size(call.input2, call.dims2[k]) = 1

\* C5: when a paired axis has extent 1 on one side (or on both), tensordot
\* returns what it is to reduce-sum the other operand along its paired axis
\* first and to multiply with broadcasting then, and the contracted size is
\* the product of the extents of the other pairs only.
C5_BroadcastPairIsSummedFirst ==
  (TensordotValid /\ HasBroadcastPair) =>
    /\ ret.err = ""
    /\ ret.val = TensordotRef(SumDims(call.input1, BroadcastDims1, TRUE),
                              SumDims(call.input2, BroadcastDims2, TRUE),
                              call.dims1, call.dims2)
    /\ tensordot_pairs(call.input1, call.input2, call.dims1, call.dims2,
                       [err |-> "", t1 |-> call.input1, t2 |-> call.input2,
                        csize |-> 1], 0).csize
         = ProdFrom([k \in 1..Len(call.dims1) |->
                       IF Size(call.input1, call.dims1[k]) = 1
                          \/ Size(call.input2, call.dims2[k]) = 1
                       THEN 1 ELSE Size(call.input1, call.dims1[k])], 1)

\* Two pairs were contracted: the first has extent 2 on the left and 1 on
\* the right, the second extent 2 on both sides.
C5_Witness ==
  /\ TensordotValid
  /\ call.input1.sizes = <<2, 2>>
  /\ call.input2.sizes = <<1, 2>>
  /\ call.dims1 = <<0, 1>>
  /\ call.dims2 = <<0, 1>>
  /\ ret.err = ""
  /\ ret.val.sizes = <<>>

(***************************************************************************)
(* Reference semantics of bilinear.                                        *)
(***************************************************************************)
BilinearReturned == pc = "done" /\ call.fn = "bilinear"

\* input1 and input2 agree in rank and batch extents, their last extents
\* are weight.size(1) and weight.size(2), and a bias has weight.size(0)
\* entries.
BilinearValid ==
  /\ BilinearReturned
  /\ Dim(call.input1) = Dim(call.input2)
  /\ \A d \in 1..(Dim(call.input1) - 1) :
       call.input1.sizes[d] = call.input2.sizes[d]
  /\ call.input1.sizes[Dim(call.input1)] = call.weight.sizes[2]
  /\ call.input2.sizes[Dim(call.input2)] = call.weight.sizes[3]
  /\ defined(call.bias) => call.bias.sizes = <<call.weight.sizes[1]>>

BiasAt(bias, o) == IF defined(bias) THEN At(bias, <<o>>) ELSE 0

\* y[n, o] = sum over i, j of x1[n, i] * weight[o, i, j] * x2[n, j] + bias[o]
BilinearRef(x1, x2, weight, bias) ==
  LET r == Dim(x1)
      IJ == (0..(weight.sizes[2] - 1)) \X (0..(weight.sizes[3] - 1))
  IN MkTensor(SubSeq(x1.sizes, 1, r - 1) \o <<weight.sizes[1]>>,
              LAMBDA idx :
                SumOver(IJ, [ij \in IJ |->
                               At(x1, SubSeq(idx, 1, r - 1) \o <<ij[1]>>)
                               * At(weight, <<idx[r], ij[1], ij[2]>>)
                               * At(x2, SubSeq(idx, 1, r - 1) \o <<ij[2]>>)])
                + BiasAt(bias, idx[r]))

\* bias[o] + sum over i of x1[n, i] * x2[n, i]
BilinearIdentityRef(x1, x2, weight, bias) ==
  LET r == Dim(x1)
      I == 0..(weight.sizes[2] - 1)
  IN MkTensor(SubSeq(x1.sizes, 1, r - 1) \o <<weight.sizes[1]>>,
              LAMBDA idx :
                SumOver(I, [i \in I |->
                              At(x1, SubSeq(idx, 1, r - 1) \o <<i>>)
                              * At(x2, SubSeq(idx, 1, r - 1) \o <<i>>)])
                + BiasAt(bias, idx[r]))

\* C6: on valid inputs bilinear returns the array of shape (batch extents
\* of x1, weight.size(0)) with y[n, o] = sum over i, j of
\* x1[n, i] * weight[o, i, j] * x2[n, j], plus bias[o] when a bias is given;
\* for a weight that is 1 where i = j and 0 elsewhere that is
\* bias[o] + sum over i of x1[n, i] * x2[n, i].
C6_BilinearForm ==
  BilinearValid =>
    /\ ret.err = ""
    /\ ret.val = BilinearRef(call.input1, call.input2, call.weight, call.bias)
    /\ (call.weight = IdentityWeight(call.weight.sizes)
        /\ call.weight.sizes[2] = call.weight.sizes[3]) =>
         ret.val = BilinearIdentityRef(call.input1, call.input2, call.weight,
                                       call.bias)

\* bilinear returned for inputs with two batch axes, a 2 x 2 x 2 weight that
\* is not the identity-like one, and a bias.
C6_Witness ==
  /\ BilinearValid
  /\ call.input1.sizes = <<2, 1, 2>>
  /\ call.weight.sizes = <<2, 2, 2>>
  /\ call.weight # IdentityWeight(call.weight.sizes)
  /\ defined(call.bias)
  /\ ret.err = ""
  /\ ret.val.sizes = <<2, 1, 2>>

(***************************************************************************)
(* Reference semantics of _trilinear.                                      *)
(***************************************************************************)
TrilinearReturned == pc = "done" /\ call.fn = "_trilinear"

\* t.unsqueeze(expand): a size-1 axis inserted at each axis of the
\* ascending list expand.
RECURSIVE UnsqueezeAll(_, _, _)
UnsqueezeAll(t, expand, k) ==
  IF k > Len(expand) THEN t
  ELSE UnsqueezeAll(Unsqueeze(t, expand[k]), expand, k + 1)

\* (i1.unsqueeze(expand1) * i2.unsqueeze(expand2) * i3.unsqueeze(expand3))
\* .sum(sumdim)
TrilinearRef(i1, i2, i3, expand1, expand2, expand3, sumdim) ==
  SumDims(Mul(Mul(UnsqueezeAll(i1, expand1, 1), UnsqueezeAll(i2, expand2, 1)),
              UnsqueezeAll(i3, expand3, 1)),
          Range(sumdim), FALSE)

TrilinearInRange ==
  /\ TrilinearReturned
  /\ call.unroll_dim >= 0
  /\ call.unroll_dim < Dim(call.i1) + Len(call.expand1)

\* C8 (as claimed): for every choice of the expand lists, the sum axes and
\* the unroll axis, _trilinear returns
\* (i1.unsqueeze(expand1) * i2.unsqueeze(expand2) * i3.unsqueeze(expand3))
\* .sum(sumdim).
C8_TrilinearFormula ==
  TrilinearInRange =>
    /\ ret.err = ""
    /\ ret.val = TrilinearRef(call.i1, call.i2, call.i3, call.expand1,
                              call.expand2, call.expand3, call.sumdim)

\* Some axis is in all three expand lists.
TrilinearAxisInNoOperand ==
  \E d \in Range(call.expand1) : d \in Range(call.expand2)
                                 /\ d \in Range(call.expand3)

\* The formula of C8 on the calls in which every axis is an axis of at
\* least one operand.
TrilinearFormulaOnPresentAxes ==
  (TrilinearInRange /\ ~TrilinearAxisInNoOperand) =>
    /\ ret.err = ""
    /\ ret.val = TrilinearRef(call.i1, call.i2, call.i3, call.expand1,
                              call.expand2, call.expand3, call.sumdim)

(***************************************************************************)
(* Errors of einsum.                                                       *)
(***************************************************************************)
\* Every character right of "->" is a label or a space.
RhsWellFormed(equation) ==
  /\ RefHasOutput(equation)
  /\ \A p \in (RefArrow(equation) + 2)..Len(equation) :
       \/ equation[p] = CharSpace
       \/ equation[p] >= CharA /\ equation[p] <= CharZ

\* The call has as many groups as operands, its groups hold labels and
\* spaces only, and every group has as many labels as its operand has axes.
LhsAccepted ==
  /\ EinsumReturned
  /\ call.operands # <<>>
  /\ RefNumGroups(call.equation) = Len(call.operands)
  /\ LhsWellFormed(call.equation)
  /\ \A k \in 1..Len(call.operands) :
       Len(RefGroup(call.equation, k)) = Dim(call.operands[k])

\* The positions of the output labels that are in no operand group or that
\* repeat an earlier output label.
BadOutputPositions(equation) ==
  LET out == RefOutput(equation)
  IN {p \in 1..Len(out) :
        \/ out[p] \notin RefInputLabels(equation)
        \/ \E q \in 1..(p - 1) : out[q] = out[p]}

\* C11: with an explicit output (and operand groups that are accepted),
\* einsum fails with the "does not appear in any input operand" error when
\* an output label is in no operand group, with the "appears more than once
\* in the output" error when an output label repeats, the first such label
\* of the output deciding; an output of distinct labels of the operand
\* groups is accepted: the plan is built without error.
C11_OutputLabelErrors ==
  (LhsAccepted /\ RhsWellFormed(call.equation)) =>
    LET out == RefOutput(call.equation)
        bad == BadOutputPositions(call.equation)
        first == CHOOSE p \in bad : \A q \in bad : p <= q
    IN IF bad = {}
       THEN /\ einsum_plan(call.equation, call.operands).err = ""
            /\ ret.err \notin {ErrOutputUnknown, ErrOutputRepeated}
       ELSE ret.err = IF out[first] \in RefInputLabels(call.equation)
                      THEN ErrOutputRepeated ELSE ErrOutputUnknown

\* "ij->jj" on a matrix was refused because "j" repeats in the output.
C11_Witness ==
  /\ LhsAccepted
  /\ call.equation = <<CharA + 8, CharA + 9, CharDash, CharGt,
                       CharA + 9, CharA + 9>>
  /\ ret.err = ErrOutputRepeated

IsLabel(c) == c >= CharA /\ c <= CharZ

\* The positions of the characters of the operand groups and of the explicit
\* output that are neither a space nor a label (nor, left of "->", a comma).
BadCharPositions(equation) ==
  LET arrow == RefArrow(equation)
  IN {p \in 1..Len(equation) :
        /\ ~IsLabel(equation[p])
        /\ equation[p] # CharSpace
        /\ IF arrow = 0 \/ p < arrow THEN equation[p] # CharComma
           ELSE p > arrow + 1}

\* The labels among the characters from..to of the equation.
LabelsBetween(equation, from, to) ==
  SelectSeq(SubSeq(equation, from, to), IsLabel)

\* The character at position p is the first thing einsum objects to: the
\* groups are as many as the operands, the groups before p's have as many
\* labels as their operands have axes, p's group has no more labels before p
\* than its operand has axes and, when p is in the output, every group has
\* as many labels as its operand has axes and the output labels before p
\* are distinct labels of the operand groups.
MetFirst(equation, operands, p) ==
  LET arrow == RefArrow(equation)
      cs == RefCommas(equation)
      inLhs == arrow = 0 \/ p < arrow
      g == 1 + Cardinality({k \in 1..Len(cs) : cs[k] < p})
      start == IF g = 1 THEN 1 ELSE cs[g - 1] + 1
      before == LabelsBetween(equation, arrow + 2, p - 1)
  IN /\ operands # <<>>
     /\ RefNumGroups(equation) = Len(operands)
     /\ IF inLhs
        THEN /\ \A k \in 1..(g - 1) :
                  Len(RefGroup(equation, k)) = Dim(operands[k])
             /\ Len(LabelsBetween(equation, start, p - 1)) <= Dim(operands[g])
        ELSE /\ \A k \in 1..Len(operands) :
                  Len(RefGroup(equation, k)) = Dim(operands[k])
             /\ \A q \in 1..Len(before) :
                  /\ before[q] \in RefInputLabels(equation)
                  /\ \A r \in 1..(q - 1) : before[r] # before[q]

\* C12 (as claimed): einsum raises the parse error whenever a character of
\* an operand group or of the explicit output is neither a space nor a
\* label.
C12_Original ==
  (EinsumReturned /\ BadCharPositions(call.equation) # {}) =>
    ret.err = ErrSubscriptRange

\* C12 (amended): einsum fails whenever a character of an operand group or
\* of the explicit output is neither a space nor a label, and the failure is
\* the parse error when the first such character is the first thing einsum
\* objects to; spaces are ignored: an equation of labels, spaces, commas and
\* "->" gives what the equation without its spaces gives.
C12_InvalidCharacterFails ==
  LET bad == BadCharPositions(call.equation)
      first == CHOOSE p \in bad : \A q \in bad : p <= q
  IN /\ (EinsumReturned /\ bad # {}) =>
          /\ ret.err # ""
          /\ MetFirst(call.equation, call.operands, first)
               => ret.err = ErrSubscriptRange
     /\ (EinsumReturned /\ bad = {}) =>
          ret = einsum(NoSpaces(call.equation), call.operands)

\* "i ,>" on two vectors was refused with the parse error: the space was
\* skipped, ">" is no label.
C12_Witness ==
  /\ EinsumReturned
  /\ call.equation = <<CharA + 8, CharSpace, CharComma, CharGt>>
  /\ Len(call.operands) = 2
  /\ Dim(call.operands[1]) = 1
  /\ ret.err = ErrSubscriptRange

\* The equation is accepted for the operands: the operand groups are, and
\* an explicit output holds distinct labels of the operand groups.
PlanAccepted ==
  /\ LhsAccepted
  /\ RefHasOutput(call.equation) =>
       /\ RhsWellFormed(call.equation)
       /\ BadOutputPositions(call.equation) = {}

\* The extents of the axes of operand k that carry label l.
ExtentsIn(equation, operands, k, l) ==
  {operands[k].sizes[a] : a \in {a \in 1..Len(RefGroup(equation, k)) :
                                   RefGroup(equation, k)[a] = l}}

\* Inside every group the axes that share a label have one extent.
DiagonalsAgree(equation, operands) ==
  \A k \in 1..Len(operands) : \A l \in Range(RefGroup(equation, k)) :
    Cardinality(ExtentsIn(equation, operands, k, l)) = 1

\* Some label has two different extents, both greater than 1, in two
\* different operands.
ExtentConflict(equation, operands) ==
  \E k1, k2 \in 1..Len(operands) : \E l \in Range(RefGroup(equation, k1)) :
    /\ k1 # k2
    /\ \E e1 \in ExtentsIn(equation, operands, k1, l),
          e2 \in ExtentsIn(equation, operands, k2, l) :
         e1 # e2 /\ e1 > 1 /\ e2 > 1

\* C13: for an accepted equation (whose repeated labels inside a group
\* agree), einsum fails, with the broadcast error of the product, when some
\* label has two different extents greater than 1 in two different
\* operands; otherwise, the extents being equal or 1, it succeeds and every
\* output axis has the largest extent of its label.
C13_ExtentConflictFails ==
  (PlanAccepted /\ DiagonalsAgree(call.equation, call.operands)) =>
    IF ExtentConflict(call.equation, call.operands)
    THEN ret.err = ErrBroadcast
    ELSE /\ ret.err = ""
         /\ ret.val.sizes =
              [p \in 1..Len(RefOutput(call.equation)) |->
                 RefExtent(RefGroups(call.equation), call.operands,
                           RefOutput(call.equation)[p])]

\* "ij,ji" was refused for operands whose "i" axes have the extents
\* MaxExtent and MaxExtent + 1.
C13_Witness ==
  /\ PlanAccepted
  /\ call.equation = <<CharA + 8, CharA + 9, CharComma, CharA + 9, CharA + 8>>
  /\ call.operands[1].sizes = <<MaxExtent, MaxExtent>>
  /\ call.operands[2].sizes = <<MaxExtent, MaxExtent + 1>>
  /\ ret.err = ErrBroadcast

\* C14: for an accepted equation, einsum fails with the diagonal-size error
\* whenever a label is repeated inside one operand's group and the axes that
\* carry it do not all have the same extent, an extent of 1 included.
C14_DiagonalSizeMismatch ==
  (PlanAccepted /\ ~DiagonalsAgree(call.equation, call.operands)) =>
    ret.err = ErrDiagonalSize

\* "ii" was refused for an operand of shape [1, MaxExtent].
C14_Witness ==
  /\ PlanAccepted
  /\ call.equation = <<CharA + 8, CharA + 8>>
  /\ call.operands[1].sizes = <<1, MaxExtent>>
  /\ ret.err = ErrDiagonalSize

(***************************************************************************)
(* Errors of tensordot.                                                    *)
(***************************************************************************)
\* The lists of axes are equally long and name axes of their operands.
TensordotAxesInRange ==
  /\ TensordotReturned
  /\ Len(call.dims1) = Len(call.dims2)
  /\ \A k \in 1..Len(call.dims1) :
       /\ call.dims1[k] < Dim(call.input1)
       /\ call.dims2[k] < Dim(call.input2)

\* The k-th pair of axes has two different extents, both greater than 1.
PairConflict(k) ==
  LET s1 == Size(call.input1, call.dims1[k])
      s2 == Size(call.input2, call.dims2[k])
  IN s1 # s2 /\ s1 > 1 /\ s2 > 1

\* C15: tensordot fails with the length error when the two lists of axes
\* have different lengths; with lists of equal length that name axes of the
\* operands, it fails with the extent error when some pair of axes has two
\* different extents greater than 1, and never with that error when in every
\* pair the extents are equal or one of them is 1.
C15_TensordotErrors ==
  /\ (TensordotReturned /\ Len(call.dims1) # Len(call.dims2)) =>
       ret.err = ErrTensordotLen
  /\ TensordotAxesInRange =>
       IF \E k \in 1..Len(call.dims1) : PairConflict(k)
       THEN ret.err = ErrTensordotSize
       ELSE ret.err # ErrTensordotSize
  /\ TensordotValid => ret.err = ""

\* tensordot over one pair of axes of extents MaxExtent and MaxExtent + 1
\* was refused.
C15_Witness ==
  /\ TensordotAxesInRange
  /\ Len(call.dims1) = 1
  /\ Size(call.input1, call.dims1[1]) = MaxExtent
  /\ Size(call.input2, call.dims2[1]) = MaxExtent + 1
  /\ ret.err = ErrTensordotSize

(***************************************************************************)
(* Errors of bilinear.                                                     *)
(***************************************************************************)
BilinearErrors ==
  {ErrBilinearDims, ErrBilinearBatch, ErrBilinearInput1, ErrBilinearInput2,
   ErrBilinearBias}

RankMismatch == Dim(call.input1) # Dim(call.input2)

BatchMismatch ==
  \E d \in 1..(Dim(call.input1) - 1) :
    call.input1.sizes[d] # call.input2.sizes[d]

Input1Mismatch == call.input1.sizes[Dim(call.input1)] # call.weight.sizes[2]

Input2Mismatch == call.input2.sizes[Dim(call.input2)] # call.weight.sizes[3]

BiasMismatch ==
  defined(call.bias) /\ call.bias.sizes[1] # call.weight.sizes[1]

\* C16: bilinear fails, with the error of the first of these that applies,
\* when x1 and x2 differ in rank, when they differ in a leading extent, when
\* x1's last extent differs from weight.size(1), when x2's last extent
\* differs from weight.size(2), and when a bias is given whose length
\* differs from weight.size(0); when none applies, and so with an absent
\* bias and matching operands, it succeeds.
C16_BilinearErrors ==
  BilinearReturned =>
    /\ ret.err = IF RankMismatch THEN ErrBilinearDims
                 ELSE IF BatchMismatch THEN ErrBilinearBatch
                 ELSE IF Input1Mismatch THEN ErrBilinearInput1
                 ELSE IF Input2Mismatch THEN ErrBilinearInput2
                 ELSE IF BiasMismatch THEN ErrBilinearBias
                 ELSE ""
    /\ ~defined(call.bias) => ret.err # ErrBilinearBias

\* A bias of a length other than weight.size(0) was refused, the operands
\* matching each other and the weight.
C16_Witness ==
  /\ BilinearReturned
  /\ ~RankMismatch /\ ~BatchMismatch /\ ~Input1Mismatch /\ ~Input2Mismatch
  /\ BiasMismatch
  /\ ret.err = ErrBilinearBias

(***************************************************************************)
(* Errors of _trilinear.                                                   *)
(***************************************************************************)
UnrollOutOfRange ==
  \/ call.unroll_dim < 0
  \/ call.unroll_dim >= Dim(call.i1) + Len(call.expand1)

\* C17: _trilinear fails with the unroll_dim error whenever unroll_dim is
\* negative or not less than i1.dim() + expand1.size(), whatever the other
\* arguments are: lists of axes that would be refused and operands that
\* would not fit them are not looked at before.
C17_UnrollDimChecked ==
  (TrilinearReturned /\ UnrollOutOfRange) => ret.err = ErrUnrollDim

\* A call whose unroll_dim is out of range and whose first list of axes
\* repeats an axis failed with the unroll_dim error.
C17_Witness ==
  /\ TrilinearReturned
  /\ UnrollOutOfRange
  /\ call.expand1 = <<0, 0>>
  /\ ret.err = ErrUnrollDim

(***************************************************************************)
(* The order of validation and computation.                                *)
(***************************************************************************)
\* A call modelled statement by statement returns what the call modelled as
\* one step returns.
TensordotStepsAgree ==
  TensordotReturned =>
    ret = tensordot(call.input1, call.input2, call.dims1, call.dims2)

\* C18 (as claimed): when a call fails, it has executed no data-computing
\* primitive (sum, mul, mm, bmm, add) before the error was raised.
C18_ErrorsPrecedeComputation ==
  (pc = "done" /\ ret.err # "") => executed = <<>>

(***************************************************************************)
(* Calls on shared operands.                                               *)
(***************************************************************************)
\* What the call c returns when it runs alone on the operands of the
\* callers.
AloneResult(c) ==
  IF c.fn = "einsum"
  THEN einsum(c.equation,
              [k \in 1..Len(c.handles) |-> View(CallerHeap, c.handles[k])])
  ELSE _trilinear(View(CallerHeap, c.i1), View(CallerHeap, c.i2),
                  View(CallerHeap, c.i3), <<>>, <<>>, <<>>, c.sumdim,
                  c.unroll_dim)

\* C19: at every moment of every call, failed calls included, the operands
\* of the callers have the extents, the strides (the axis order) and the
\* entries they had before: the axis operations in place of einsum's
\* diagonals and the accumulation in place of _trilinear change only
\* tensors created inside the call.
C19_CallerOperandsUnchanged ==
  \A id \in CallerHandles :
    /\ id \in DOMAIN heap.impl
    /\ heap.impl[id] = CallerHeap.impl[id]
    /\ heap.data[id] = CallerHeap.data[id]

\* A thread has returned from einsum("ii", A), whose diagonal was reshaped
\* in place, while another is in the unrolled loop of _trilinear and has
\* accumulated in place once.
C19_Witness ==
  \E t, u \in Threads :
    /\ threads[t].pc = "done"
    /\ threads[t].call.fn = "einsum"
    /\ threads[t].call.equation = <<CharA + 8, CharA + 8>>
    /\ threads[t].ret.err = ""
    /\ threads[u].pc = "trilinear_unroll"
    /\ threads[u].local.k = 1

\* C20: a call that runs while other calls run, on operands they share,
\* returns what it returns when it runs alone, whatever the order of the
\* steps of the calls.
C20_ConcurrentCallsAgree ==
  \A t \in Threads :
    threads[t].pc = "done" => threads[t].ret = AloneResult(threads[t].call)

\* A call of einsum on two operands has aligned the first one while another
\* call on the same operands, made by another thread, has returned a result
\* that is still held.
C20_Witness ==
  \E t, u \in Threads :
    /\ t # u
    /\ threads[t].pc = "done" /\ threads[t].ret.err = ""
    /\ threads[t].call.fn = "einsum"
    /\ threads[u].pc = "einsum_align" /\ threads[u].local.i = 1
    /\ threads[t].call.handles = threads[u].call.handles
    /\ Len(threads[u].call.handles) = 2

(***************************************************************************)
(* sumproduct_pair against (left * right).sum(sum_dims).                   *)
(***************************************************************************)
SumproductPairReturned == pc = "done" /\ call.fn = "sumproduct_pair"

\* The operands have the same rank and, on every axis, equal extents or an
\* extent of 1 on one side; sum_dims_ names axes of the operands.
PairCompatible(left, right, sum_dims_) ==
  /\ Dim(left) = Dim(right)
  /\ \A d \in 0..(Dim(left) - 1) :
       Size(left, d) = Size(right, d) \/ Size(left, d) = 1
       \/ Size(right, d) = 1
  /\ Range(sum_dims_) \subseteq 0..(Dim(left) - 1)

\* The axes of the operands that are not summed, in ascending order.
PairKeptAxes(left, sum_dims_) ==
  SortedSeq((0..(Dim(left) - 1)) \ Range(sum_dims_))

PairExtent(left, right, d) ==
  IF Size(left, d) = 1 THEN Size(right, d) ELSE Size(left, d)

\* C21: for two operands of equal rank whose extents on every axis are equal
\* or 1 on one side, and every set sum_dims of their axes (the empty one
\* included), sumproduct_pair returns (left * right).sum(sum_dims) with
\* broadcasting.  With keepdim the result has the operands' rank and extent
\* 1 on each summed axis; without keepdim the summed axes are removed and
\* the remaining axes keep their relative order.
C21_SumproductPairIsSumOfProduct ==
  (SumproductPairReturned
   /\ PairCompatible(call.left, call.right, call.sum_dims))
  => /\ ret.err = ""
     /\ ret.val = SumDims(Mul(call.left, call.right), Range(call.sum_dims),
                          call.keepdim)
     /\ call.keepdim =>
          /\ Dim(ret.val) = Dim(call.left)
          /\ \A d \in 0..(Dim(call.left) - 1) :
               Size(ret.val, d) =
                 IF d \in Range(call.sum_dims) THEN 1
                 ELSE PairExtent(call.left, call.right, d)
     /\ ~call.keepdim =>
          LET kept == PairKeptAxes(call.left, call.sum_dims)
          IN /\ Dim(ret.val) = Len(kept)
             /\ \A k \in 1..Len(kept) :
                  Size(ret.val, k - 1) =
                    PairExtent(call.left, call.right, kept[k])

\* A call without keepdim on operands of three axes: one axis is summed
\* and has an extent above 1 in both operands, another is kept and has an
\* extent above 1 in the left operand only, and the summed axis is not the
\* last one listed in the order "lro, lo, summed, ro".
C21_Witness ==
  /\ SumproductPairReturned
  /\ PairCompatible(call.left, call.right, call.sum_dims)
  /\ ~call.keepdim
  /\ Dim(call.left) = 3
  /\ call.sum_dims = <<0>>
  /\ Size(call.left, 0) > 1 /\ Size(call.right, 0) > 1
  /\ Size(call.left, 1) > 1 /\ Size(call.right, 1) = 1
  /\ Size(call.left, 2) = 1 /\ Size(call.right, 2) > 1
  /\ ret.err = ""
  /\ Numel(ret.val.sizes) = 4

\* An axis on which both operands have an extent above 1 and the two differ.
PairAxisConflict(left, right) ==
  \E d \in 0..(Dim(left) - 1) :
    Size(left, d) > 1 /\ Size(right, d) > 1 /\ Size(left, d) # Size(right, d)

\* C22: sumproduct_pair fails when the operands differ in rank; it fails
\* when on some axis, summed or not, both operands have extents above 1 that
\* differ (through the check of the loop when sum_dims_ is not empty,
\* through at::mul when it is); and an axis on which an operand has extent 1
\* raises no error: a call on operands of equal rank that names axes of the
\* operands fails only if some axis has such a conflict.
C22_SumproductPairErrors ==
  SumproductPairReturned =>
    /\ Dim(call.left) # Dim(call.right) => ret.err = ErrPairRank
    /\ (Dim(call.left) = Dim(call.right)
        /\ PairAxisConflict(call.left, call.right))
       => /\ ret.err # ""
          /\ (call.sum_dims # <<>>
              /\ Range(call.sum_dims) \subseteq 0..(Dim(call.left) - 1))
             => ret.err = ErrPairSize
          /\ call.sum_dims = <<>> => ret.err = ErrBroadcast
    /\ (Dim(call.left) = Dim(call.right)
        /\ Range(call.sum_dims) \subseteq 0..(Dim(call.left) - 1)
        /\ ret.err # "")
       => PairAxisConflict(call.left, call.right)

\* A failed call on operands of two axes, both summed: on the first axis
\* only the left operand has an extent above 1 (no error, the operand is
\* summed right away), on the second both have, and the extents differ.
C22_Witness ==
  /\ SumproductPairReturned
  /\ Dim(call.left) = 2 /\ Dim(call.right) = 2
  /\ Range(call.sum_dims) = {0, 1}
  /\ Size(call.left, 0) > 1 /\ Size(call.right, 0) = 1
  /\ Size(call.left, 1) > 1 /\ Size(call.right, 1) > 1
  /\ Size(call.left, 1) # Size(call.right, 1)
  /\ ret.err = ErrPairSize

(***************************************************************************)
(* The plan of an einsum call: slots of the labels.                        *)
(***************************************************************************)
\* The call has returned and its plan was built without an error.
EinsumPlanned ==
  EinsumReturned /\ einsum_plan(call.equation, call.operands).err = ""

\* The elements of s in the order of their first occurrence.
FirstSeen(s) ==
  LET P == SortedSeq({p \in 1..Len(s) : \A q \in 1..(p - 1) : s[q] # s[p]})
  IN [k \in 1..Len(P) |-> s[P[k]]]

\* The characters of the operand groups from left to right, spaces and
\* commas dropped.
RefScan(equation) ==
  SelectSeq(RefLhs(equation), LAMBDA c : c # CharSpace /\ c # CharComma)

\* The labels of the operand groups that are not output labels.
RefContracted(equation) ==
  RefInputLabels(equation) \ Range(RefOutput(equation))

LabelsOf(chars) == [k \in 1..Len(chars) |-> chars[k] - CharA]

\* C23 as stated: the slot order is the output labels, in output order,
\* followed by the other labels of the operand groups in the order of their
\* first appearance when the groups are scanned left to right.
C23_FirstSeenOrder ==
  EinsumPlanned =>
    einsum_plan(call.equation, call.operands).permuted_labels =
      LabelsOf(RefOutput(call.equation)
               \o SelectSeq(FirstSeen(RefScan(call.equation)),
                            LAMBDA c : c \in RefContracted(call.equation)))

\* C23, amended: the slot order is the output labels, in output order,
\* followed by the other labels of the operand groups in ascending label
\* order, whatever the order in which the groups mention them.
C23_AscendingOrder ==
  EinsumPlanned =>
    einsum_plan(call.equation, call.operands).permuted_labels =
      LabelsOf(RefOutput(call.equation)
               \o SortedSeq(RefContracted(call.equation)))

\* A planned call with an output label and two other labels that the
\* operand groups mention first in descending order.
C23_Witness ==
  /\ EinsumPlanned
  /\ Len(RefOutput(call.equation)) >= 1
  /\ Cardinality(RefContracted(call.equation)) = 2
  /\ SelectSeq(FirstSeen(RefScan(call.equation)),
               LAMBDA c : c \in RefContracted(call.equation))
       # SortedSeq(RefContracted(call.equation))

\* The labels that have a slot in the plan.
PlanSlotted(plan) ==
  {l \in 0..(total_labels - 1) : plan.label_out_index[l] # 0 - 1}

\* The slots of a plan are sound for the equation it was built from.
PlanSlotsSound(plan, equation) ==
  LET occurring == {c - CharA : c \in RefInputLabels(equation)}
      output == {c - CharA : c \in Range(RefOutput(equation))}
  IN \* the labels with a slot are those of the operand groups, and each
     \* is listed once among the slots
     /\ PlanSlotted(plan) = occurring
     /\ \A l \in 0..(total_labels - 1) :
          Cardinality({k \in 1..Len(plan.permuted_labels) :
                         plan.permuted_labels[k] = l})
            = IF l \in occurring THEN 1 ELSE 0
     \* no two labels share a slot
     /\ \A l, m \in PlanSlotted(plan) :
          plan.label_out_index[l] = plan.label_out_index[m] => l = m
     \* the slots are exactly 0 .. out_index-1, listed in permuted_labels
     /\ {plan.label_out_index[l] : l \in PlanSlotted(plan)}
          = 0..(plan.out_index - 1)
     /\ Len(plan.permuted_labels) = plan.out_index
     /\ \A l \in PlanSlotted(plan) :
          plan.permuted_labels[plan.label_out_index[l] + 1] = l
     \* the output labels hold exactly the slots 0 .. out_size-1
     /\ output \subseteq PlanSlotted(plan)
     /\ {plan.label_out_index[l] : l \in output} = 0..(plan.out_size - 1)
     /\ plan.out_size = Len(RefOutput(equation))
     /\ plan.out_size <= plan.out_index

\* C24: after plan construction, every label that occurs in some operand
\* group has exactly one slot, a label that occurs nowhere has none, no
\* two labels share a slot, the slots are exactly 0 .. out_index-1, and the
\* output labels hold exactly the slots 0 .. out_size-1, with an explicit
\* output and with an implicit one.
C24_PlanSlots ==
  EinsumPlanned =>
    PlanSlotsSound(einsum_plan(call.equation, call.operands), call.equation)

\* A planned call with an explicit output of two labels that are not in
\* ascending order and a label that is summed over.
C24_Witness ==
  /\ EinsumPlanned
  /\ RefHasOutput(call.equation)
  /\ Len(RefOutput(call.equation)) = 2
  /\ RefOutput(call.equation)[1] > RefOutput(call.equation)[2]
  /\ Cardinality(RefContracted(call.equation)) = 1
  /\ einsum_plan(call.equation, call.operands).out_index = 3
  /\ ret.err = ""

\* The same with an implicit output: two labels occur once, one twice.
C24_WitnessImplicit ==
  /\ EinsumPlanned
  /\ ~RefHasOutput(call.equation)
  /\ Len(RefOutput(call.equation)) = 2
  /\ einsum_plan(call.equation, call.operands).out_index = 3

(***************************************************************************)
(* The axis permutations of einsum, sumproduct_pair and tensordot.         *)
(***************************************************************************)
\* einsum: the operands whose alignment loop ends without an error have a
\* perm_shape that is a permutation of 0 .. out_index-1, and as many axes.
EinsumPermShapesBijective(operand_labels, operands, plan) ==
  \A n \in 1..Len(operands) :
    einsum_align(operand_labels[n], operands[n], plan).err = ""
    => /\ IsPermutation(
            einsum_align(operand_labels[n], operands[n], plan).perm_shape,
            plan.out_index)
       /\ Dim(einsum_align(operand_labels[n], operands[n], plan).operand)
            = plan.out_index

\* sumproduct_pair reaches the permutations: the ranks agree, sum_dims_ is
\* a non-empty list of distinct axes, and the loop raises no error.
PairPermuted ==
  /\ SumproductPairReturned
  /\ Dim(call.left) = Dim(call.right)
  /\ call.sum_dims # <<>>
  /\ dim_list_to_bitset_err(call.sum_dims, Dim(call.left)) = ""
  /\ sumproduct_pair_loop(call.left, call.right, call.sum_dims).err = ""

\* Each axis is in exactly one of lro, lo, ro and the summed axes, and the
\* three permutations are permutations of 0 .. dim-1.
PairPermutationsBijective(st, sum_dims_, dim) ==
  /\ \A d \in 0..(dim - 1) :
       Cardinality({<<c, k>> \in (1..4) \X (1..dim) :
          LET class == <<st.lro, st.lo, st.ro, sum_dims_>>[c]
          IN k <= Len(class) /\ class[k] = d}) = 1
  /\ Len(st.lro) + Len(st.lo) + Len(st.ro) + Len(sum_dims_) = dim
  /\ IsPermutation(sumproduct_pair_permutations(st, sum_dims_).lpermutation,
                   dim)
  /\ IsPermutation(sumproduct_pair_permutations(st, sum_dims_).rpermutation,
                   dim)
  /\ IsPermutation(sumproduct_pair_permutations(st, sum_dims_).opermutation,
                   dim)
  /\ \A k \in 1..dim :
       sumproduct_pair_permutations(st, sum_dims_).opermutation[k] # 0 - 1

\* tensordot reaches the permutations: the lists have the same length, the
\* loop over the pairs raises no error and the lists name distinct axes.
TensordotPermuted ==
  /\ TensordotReturned
  /\ Len(call.dims1) = Len(call.dims2)
  /\ tensordot_pairs(call.input1, call.input2, call.dims1, call.dims2,
                     tensordot_locals(call.input1, call.input2), 0).err = ""
  /\ tensordot_bitsets_err(call.input1, call.input2, call.dims1,
                           call.dims2) = ""

TensordotPermutationsBijective(lay, input1, input2) ==
  /\ IsPermutation(lay.p1, Dim(input1))
  /\ IsPermutation(lay.p2, Dim(input2))

\* C25: every axis permutation the calls build is a bijection on the axes
\* of the array it is applied to.  In einsum, after the size-1 axes are
\* appended for the absent labels, perm_shape is a permutation of
\* 0 .. out_index-1 for every operand; in sumproduct_pair every axis is in
\* exactly one of lro, lo, ro and the summed axes, so that lpermutation,
\* rpermutation and opermutation are permutations of 0 .. dim-1 without an
\* entry -1; in tensordot p1 and p2 are permutations of the axes of the
\* first and of the second operand.
C25_PermutationsBijective ==
  /\ EinsumPlanned =>
       EinsumPermShapesBijective(einsum_operand_labels(call.equation),
                                 call.operands,
                                 einsum_plan(call.equation, call.operands))
  /\ PairPermuted =>
       PairPermutationsBijective(
         sumproduct_pair_loop(call.left, call.right, call.sum_dims),
         call.sum_dims, Dim(call.left))
  /\ TensordotPermuted =>
       TensordotPermutationsBijective(
         tensordot_layout(
           tensordot_pairs(call.input1, call.input2, call.dims1, call.dims2,
                           tensordot_locals(call.input1, call.input2), 0),
           call.dims1, call.dims2,
           dim_list_to_bitset(call.dims1, Dim(call.input1)),
           dim_list_to_bitset(call.dims2, Dim(call.input2))),
         call.input1, call.input2)

\* A tensordot call that contracts the first axis of a matrix with the
\* second axis of another: p1 = <<1, 0>> and p2 = <<1, 0>> move axes.
C25_Witness ==
  /\ TensordotPermuted
  /\ Dim(call.input1) = 2 /\ Dim(call.input2) = 2
  /\ call.dims1 = <<0>> /\ call.dims2 = <<1>>
  /\ Size(call.input1, 0) > 1
  /\ ret.err = ""

\* An einsum call with two operands, the second of which lacks a label of
\* the first: a size-1 axis is appended to it before it is permuted.
C25_WitnessEinsum ==
  /\ EinsumPlanned
  /\ Len(call.operands) = 2
  /\ einsum_plan(call.equation, call.operands).out_index = 3
  /\ Dim(call.operands[2]) = 2
  /\ ret.err = ""

\* A sumproduct_pair call with one axis in each of lro, lo and the summed
\* axes.
C25_WitnessPair ==
  /\ PairPermuted
  /\ Dim(call.left) = 3
  /\ Len(call.sum_dims) = 1
  /\ Len(sumproduct_pair_loop(call.left, call.right, call.sum_dims).lro) = 1
  /\ Len(sumproduct_pair_loop(call.left, call.right, call.sum_dims).lo) = 1

NextPermutations ==
  TensordotCall \/ SumproductPairCall \/ EinsumCall \/ Return

SpecPermutations == Init /\ [][NextPermutations]_vars

====
